---- MODULE Spec2Model ----
(***************************************************************************)
(* Verification model of the batch clip-synthesis pipeline of              *)
(* drama_processor: the export-directory planner (utils/files.py,          *)
(* core/processor.py), the segment builder (core/encoder.py,               *)
(* core/segments.py) and the outro (tail) cache (core/encoder.py).         *)
(*                                                                         *)
(* Each component has its own specification over the shared variables:     *)
(*   SpecPlanner   - prepare_project_output_dir / process_project_materials*)
(*   SpecSegments  - build_segments_at_episode_boundaries                  *)
(*   SpecOutro     - get_or_build_tail_norm called by pool workers         *)
(***************************************************************************)
EXTENDS Integers, Sequences, FiniteSets, TLC

VARIABLES
    \* ---- export directories (file system under the export roots)
    exportDirs,   \* function: existing directory -> set of material indices in it
    useDate,      \* config.date_str / drama_date is set
    prevDirs,     \* exportDirs as it was before the last planner call
    plan,         \* result of the last prepare_project_output_dir call
    pcPlan,       \* "idle" | "planned"
    runs,         \* planner calls made so far
    \* ---- segment builder (inputs of one call and its result)
    episodes,     \* probed duration of each episode file, ProbeError if ffprobe fails
    startEp,      \* start_ep_idx (0-based)
    startOff,     \* start_offset
    minSec,       \* min_sec
    maxSec,       \* max_sec
    segs,         \* plan returned by VideoEncoder.build_segments_at_episode_boundaries
    usedStart,    \* the start point the scan ran from (after a possible adjustment)
    sbSegs,       \* plan returned by SegmentBuilder.build_segments_at_episode_boundaries
    pcSeg,        \* "input" | "built"   (VideoEncoder's builder)
    pcSb,         \* "input" | "built"   (SegmentBuilder)
    \* ---- outro (tail) cache: one cache key, files as inodes
    tailExists,   \* os.path.isfile(tail_src)
    refresh,      \* config.refresh_tail_cache of the running process
    inodes,       \* function: inode id -> [content, writers, clobbered]
    tmpPath,      \* inode at cache_path + ".tmp.mp4", NoFile if the path is absent
    cachePath,    \* inode at cache_path, NoFile if the path is absent
    wpc,          \* per worker: position in get_or_build_tail_norm
    wret,         \* per worker: value returned by the call
    wfd,          \* per worker: inode its ffmpeg process writes, NoFile if none
    wcall,        \* per worker: [renders, refresh, prev] of the call in progress
    observed,     \* per worker: content its concat step read at the cache path
    lastDone,     \* the call that returned most recently
    calls,        \* calls started so far
    epoch,        \* process restarts so far
    \* ---- one EncodeJob (VideoEncoder.process_material), run by JobWorker
    jpc,          \* position in process_material
    keepTemp,     \* keep_temp
    useHw,        \* use_hw (config.use_hardware)
    workdir,      \* the job's scratch directory exists
    nSegs,        \* len(segs) of the job's segment plan
    segIdx,       \* segment the encode loop is at (1-based)
    encLog,       \* ffmpeg runs of the encode loop: <<[seg, enc, ok], ...>>
    finalSrc,     \* final_src: "concat_main" | "concat_with_tail"
    outWritten,   \* out_path has been written by the final remux
    jobResult,    \* "-" | "path" | "None" | "raised"
    raisedAt,     \* the step whose exception left process_material
    tailRet,      \* what the outro step got: "-" | "skipped" | "None" | "cache_path"
    tailRenders,  \* renders started by the job's get_or_build_tail_norm call
    cacheAtCall,  \* inode at cache_path when the job called get_or_build_tail_norm
    jobsRun,      \* jobs started so far
    \* ---- cut-point history of one series, used by concurrent runs of the tool
    cfile,        \* used_cut_points list stored in the series' JSON file
    cused,        \* per run: self.used_cut_points
    cinit,        \* per run: initial_points_count
    cstart,       \* per run: start_points handed back by generate_start_points
    cdisp,        \* per run: material indices dispatched for the series
    cplan,        \* per run: [start_index, count] of the call
    cpc,          \* per run: position in process_project_materials
    dedup,        \* config.enable_deduplication
    randomStart,  \* config.random_start
    sceneDetect,  \* enable_scene_detection
    rounds,       \* process_project_materials calls started so far
    \* ---- one batch run: process_all_dramas over the selected series
    bpc,          \* "series" | "pool" | "finished"
    bSeries,      \* position of the series loop (1-based)
    jobsLimit,    \* config.jobs
    bTasks,       \* per series: state of each dispatched task, in dispatch order
    bOutcome,     \* per series: "pending" | "raised" | "skipped" | "processed" | "raised_after"
    bProduced,    \* per series: dispatched tasks whose output file was written
    bCompleted,   \* per series: completed_count of process_project_materials
    totalDone,    \* total_materials_done of process_all_dramas
    \* ---- one AIEnhancedProcessor handling the series of a batch in turn
    sfiles,       \* per series: used_cut_points stored in the series' JSON file
    sfileOrigin,  \* per series: for each stored point, the series it was used in
    sused,        \* self.used_cut_points of the processor
    sorigin,      \* for each element of sused, the series it was used in
    sinit,        \* initial_points_count
    sstart,       \* start_points of the series being processed
    smat,         \* position of the material loop (1-based)
    sactual,      \* start point each produced material of the series was cut from
    scompleted,   \* completed_count of the series being processed
    sskipped,     \* a candidate was passed over for its distance to a used point
    sAccess,      \* accesses to the cut-point files made so far: "read", "write"
    scur,         \* series the batch is at (1-based)
    spc,          \* "idle" | "loaded" | "materials" | "finished"
    \* ---- FeishuWatcher: date tasks on the watcher's thread pool
    wMaxDates,    \* self.max_dates: size of the pool and of active_tasks
    wActive,      \* self.active_tasks: date -> its task (0 if the date has none)
    wTasks,       \* tasks submitted so far, in order: [date, state, cancel]
    \* ---- FeishuWatcher._run_batch: the loop of one date task
    rbSettle,     \* self.settle_rounds
    rbCached,     \* cached_info: a snapshot of pending names, or None
    rbProcessed,  \* processed: the names this batch is done with
    rbIdle,       \* idle_rounds
    rbDrama,      \* drama_name taken from pending (0 if none)
    rbHanded,     \* per name, the calls of _process_single_drama
    rbStop,       \* self._stop
    rbCancel,     \* cancel_event.is_set()
    rbpc,         \* "loop", "picked", "sleep", "ended"
    \* ---- feishu_run with the date-dedup records
    ddFile,       \* history/date_dedup/<date>.json: per date, processed_dramas
    ddInfo,       \* drama_info of the run under way, after the filter
    ddMarking,    \* skip_processed and not force_reprocess, for that run
    ddEver,       \* names with a material of their own completed in some run
    ddRuns,       \* runs of the command so far
    ddpc          \* "idle", "processing"

planVars == <<exportDirs, useDate, prevDirs, plan, pcPlan, runs>>
segVars  == <<episodes, startEp, startOff, minSec, maxSec, segs, usedStart, sbSegs, pcSeg, pcSb>>

outroVars == <<tailExists, refresh, inodes, tmpPath, cachePath, wpc, wret, wfd, wcall,
               observed, lastDone, calls, epoch>>

jobVars == <<jpc, keepTemp, useHw, workdir, nSegs, segIdx, encLog, finalSrc, outWritten,
             jobResult, raisedAt, tailRet, tailRenders, cacheAtCall, jobsRun>>

cutVars == <<cfile, cused, cinit, cstart, cdisp, cplan, cpc, dedup, randomStart, sceneDetect, rounds>>

batchVars == <<bpc, bSeries, jobsLimit, bTasks, bOutcome, bProduced, bCompleted, totalDone>>

storeVars == <<sfiles, sfileOrigin, sused, sorigin, sinit, sstart, smat, sactual, scompleted, sskipped, sAccess, scur, spc>>

watchVars == <<wMaxDates, wActive, wTasks>>

runVars == <<rbSettle, rbCached, rbProcessed, rbIdle, rbDrama, rbHanded, rbStop, rbCancel, rbpc>>

dedupVars == <<ddFile, ddInfo, ddMarking, ddEver, ddRuns, ddpc>>

vars == <<planVars, segVars, outroVars, jobVars, cutVars, batchVars, storeVars, watchVars, runVars, dedupVars>>

----------------------------------------------------------------------------
\* Bounds of the model

MaxRuns  == 2     \* planner calls per behaviour
MaxCount == 2     \* largest config.count tried
MaxEpisodes == 3  \* episodes per series
NumWorkers == 2   \* config.jobs: threads of the pool that run EncodeJobs
MaxCalls == 3     \* get_or_build_tail_norm calls per behaviour
MaxRestarts == 1  \* process restarts per behaviour
MaxJobs     == 2     \* EncodeJobs per behaviour
MaxSegments == 2     \* spans of a segment plan
MaxDraws    == 2     \* explicit draws of the random source per call
MaxRounds   == 2     \* process_project_materials calls per behaviour
NumSeriesEpisodes == 2  \* episodes of the series whose start points are generated
NumSeries   == 2     \* series of a batch
MaxConcurrency == 2  \* largest config.jobs tried
NumDates    == 3     \* date labels the workflow table can hold
MaxTasks    == 4     \* date tasks submitted per behaviour
NumDramas   == 3     \* drama names a date can hold
MaxSettleRounds == 2 \* largest settle_rounds tried
MaxHandOffs == 2     \* calls of _process_single_drama counted per name

----------------------------------------------------------------------------
\* Generic helpers

Max(S) == CHOOSE x \in S : \A y \in S : y <= x
LeastOf(S) == CHOOSE x \in S : \A y \in S : x <= y

\* ======================================================================
\* utils/files.py: directory names
\* A directory of the series is [root, suffix]: suffix <<>> is the plain
\* "{drama_name}" directory, a digit sequence s is "{drama_name}-{s}".
\* ======================================================================

RECURSIVE Digits(_)
Digits(n) == IF n < 10 THEN <<n>> ELSE Append(Digits(n \div 10), n % 10)

RECURSIVE ZeroPad(_, _)
ZeroPad(s, w) == IF Len(s) >= w THEN s ELSE ZeroPad(<<0>> \o s, w)

\* f"{n:03d}": at least three digits, more when n needs them
Format03d(n) == ZeroPad(Digits(n), 3)

RECURSIVE IntOf(_)
IntOf(s) == IF s = <<>> THEN 0
            ELSE 10 * IntOf(SubSeq(s, 1, Len(s) - 1)) + s[Len(s)]

NoSuffix == <<>>
NoDir    == [root |-> "none", suffix |-> NoSuffix]

Dir(root, suffix) == [root |-> root, suffix |-> suffix]

\* the root the date-aware helpers work in
ExportRoot(dated) == IF dated THEN "dated" ELSE "exports"

SuffixesIn(fs, root) == {d.suffix : d \in {x \in DOMAIN fs : x.root = root}}

\* os.makedirs(path, exist_ok=True)
MakeDirs(fs, d) ==
    IF d \in DOMAIN fs THEN fs
    ELSE [x \in (DOMAIN fs) \cup {d} |-> IF x = d THEN {} ELSE fs[x]]

\* the list `existing` built by prepare_export_dir
ExistingRuns(fs, root) ==
    (IF NoSuffix \in SuffixesIn(fs, root) THEN {-1} ELSE {})
    \cup {IntOf(s) : s \in {t \in SuffixesIn(fs, root) : Len(t) = 3}}

prepare_export_dir(fs, root) ==
    LET existing   == ExistingRuns(fs, root)
        next_idx   == IF Max(existing) >= 0 THEN Max(existing) + 1 ELSE 1
        run_suffix == IF existing = {} THEN NoSuffix ELSE Format03d(next_idx)
        out_dir    == Dir(root, run_suffix)
    IN  [fs |-> MakeDirs(fs, out_dir), out_dir |-> out_dir, run_suffix |-> run_suffix]

get_latest_export_dir(fs, root) ==
    LET three == {t \in SuffixesIn(fs, root) : Len(t) = 3}
        vals  == {IntOf(s) : s \in three}
    IN  IF vals # {}
        THEN LET val  == Max(vals)
                 name == CHOOSE s \in three : IntOf(s) = val
             IN  [best_dir |-> Dir(root, name), best_suffix |-> Format03d(val)]
        ELSE IF NoSuffix \in SuffixesIn(fs, root)
        THEN [best_dir |-> Dir(root, NoSuffix), best_suffix |-> NoSuffix]
        ELSE [best_dir |-> NoDir, best_suffix |-> NoSuffix]

count_existing_materials(fs, d) ==
    IF d = NoDir \/ d \notin DOMAIN fs THEN 0 ELSE Cardinality(fs[d])

\* ======================================================================
\* core/processor.py: DramaProcessor.prepare_project_output_dir
\* fresh = "drama_name in config.include", count = config.count
\* ======================================================================

\* prepare_project_output_dir with the continuation index off by one
\* (start_index = existing_count instead of existing_count + 1)
prepare_project_output_dir_reuse_last(fs, fresh, count, dated) ==
    IF fresh
    THEN LET p == prepare_export_dir(fs, ExportRoot(dated))
         IN  [fs |-> p.fs, out_dir |-> p.out_dir, run_suffix |-> p.run_suffix,
              start_index |-> 1, total_to_make |-> count]
    ELSE LET l == get_latest_export_dir(fs, ExportRoot(dated))
             existing_count == count_existing_materials(fs, l.best_dir)
         IN  IF l.best_dir # NoDir
             THEN IF existing_count >= count
                  THEN [fs |-> fs, out_dir |-> NoDir, run_suffix |-> NoSuffix,
                        start_index |-> 0, total_to_make |-> 0]
                  ELSE [fs |-> fs, out_dir |-> l.best_dir, run_suffix |-> l.best_suffix,
                        start_index |-> existing_count,
                        total_to_make |-> count - existing_count]
             ELSE LET out_dir == Dir("exports", NoSuffix)
                  IN  [fs |-> MakeDirs(fs, out_dir), out_dir |-> out_dir,
                       run_suffix |-> NoSuffix, start_index |-> 1, total_to_make |-> count]

prepare_project_output_dir(fs, fresh, count, dated) ==
    IF fresh
    THEN LET p == prepare_export_dir(fs, ExportRoot(dated))
         IN  [fs |-> p.fs, out_dir |-> p.out_dir, run_suffix |-> p.run_suffix,
              start_index |-> 1, total_to_make |-> count]
    ELSE LET l == get_latest_export_dir(fs, ExportRoot(dated))
             existing_count == count_existing_materials(fs, l.best_dir)
         IN  IF l.best_dir # NoDir
             THEN IF existing_count >= count
                  THEN [fs |-> fs, out_dir |-> NoDir, run_suffix |-> NoSuffix,
                        start_index |-> 0, total_to_make |-> 0]
                  ELSE [fs |-> fs, out_dir |-> l.best_dir, run_suffix |-> l.best_suffix,
                        start_index |-> existing_count + 1,
                        total_to_make |-> count - existing_count]
             ELSE LET out_dir == Dir("exports", NoSuffix)
                  IN  [fs |-> MakeDirs(fs, out_dir), out_dir |-> out_dir,
                       run_suffix |-> NoSuffix, start_index |-> 1, total_to_make |-> count]

\* ======================================================================
\* core/encoder.py: VideoEncoder.build_segments_at_episode_boundaries
\* Times are whole seconds; episode i (0-based, as in the code) is
\* episodes[i + 1].
\* ======================================================================

\* probe_duration raised for this file
ProbeError == -1

probe_duration(eps, i) == eps[i + 1]

Max2(a, b) == IF a >= b THEN a ELSE b
Min2(a, b) == IF a <= b THEN a ELSE b
Abs(x) == IF x < 0 THEN -x ELSE x

\* episode_duration * 0.1 (durations are multiples of 10 s)
TenPercent(d) == d \div 10

RECURSIVE AvailableFrom(_, _, _, _)
AvailableFrom(eps, i, start_ep_idx, start_offset) ==
    IF i >= Len(eps) THEN 0
    ELSE IF probe_duration(eps, i) = ProbeError
         THEN AvailableFrom(eps, i + 1, start_ep_idx, start_offset)
         ELSE (IF i = start_ep_idx
               THEN Max2(0, probe_duration(eps, i) - start_offset)
               ELSE probe_duration(eps, i))
              + AvailableFrom(eps, i + 1, start_ep_idx, start_offset)

_calculate_available_duration(eps, start_ep_idx, start_offset) ==
    AvailableFrom(eps, start_ep_idx, start_ep_idx, start_offset)

NoStart == [found |-> FALSE, ep_idx |-> 0, offset |-> 0]

\* _find_valid_start_point that never tries the first episode
RECURSIVE FindValidFrom_skip_first(_, _, _)
FindValidFrom_skip_first(eps, ep_idx, min_sec) ==
    IF ep_idx >= Len(eps) THEN NoStart
    ELSE IF ep_idx = 0 \/ probe_duration(eps, ep_idx) = ProbeError
         THEN FindValidFrom_skip_first(eps, ep_idx + 1, min_sec)
    ELSE LET episode_duration  == probe_duration(eps, ep_idx)
             available_from_ep == _calculate_available_duration(eps, ep_idx, 0)
             max_safe_offset   == Max2(episode_duration - min_sec, 0)
             safe_offset       == Min2(max_safe_offset, TenPercent(episode_duration))
         IN  IF available_from_ep < min_sec
             THEN FindValidFrom_skip_first(eps, ep_idx + 1, min_sec)
             ELSE IF _calculate_available_duration(eps, ep_idx, safe_offset) >= min_sec
             THEN [found |-> TRUE, ep_idx |-> ep_idx, offset |-> safe_offset]
             ELSE FindValidFrom_skip_first(eps, ep_idx + 1, min_sec)

\* the loop of _find_valid_start_point from episode ep_idx on
RECURSIVE FindValidFrom(_, _, _)
FindValidFrom(eps, ep_idx, min_sec) ==
    IF ep_idx >= Len(eps) THEN NoStart
    ELSE IF probe_duration(eps, ep_idx) = ProbeError
         THEN FindValidFrom(eps, ep_idx + 1, min_sec)
    ELSE LET episode_duration  == probe_duration(eps, ep_idx)
             available_from_ep == _calculate_available_duration(eps, ep_idx, 0)
             max_safe_offset   == Max2(episode_duration - min_sec, 0)
             safe_offset       == Min2(max_safe_offset, TenPercent(episode_duration))
         IN  IF available_from_ep < min_sec
             THEN FindValidFrom(eps, ep_idx + 1, min_sec)
             ELSE IF _calculate_available_duration(eps, ep_idx, safe_offset) >= min_sec
             THEN [found |-> TRUE, ep_idx |-> ep_idx, offset |-> safe_offset]
             ELSE FindValidFrom(eps, ep_idx + 1, min_sec)

_find_valid_start_point(eps, min_sec, max_sec) == FindValidFrom(eps, 0, min_sec)

\* the scan loop with the start offset applied to every episode
RECURSIVE ScanChoices_offset_everywhere(_, _, _, _, _, _)
ScanChoices_offset_everywhere(eps, i, start_ep_idx, start_offset, total, max_sec) ==
    IF i >= Len(eps) THEN <<>>
    ELSE IF probe_duration(eps, i) = ProbeError
         THEN ScanChoices_offset_everywhere(eps, i + 1, start_ep_idx, start_offset, total, max_sec)
    ELSE LET dur       == probe_duration(eps, i)
             seg_start == start_offset
             take      == Max2(0, dur - seg_start)
             choice    == [i |-> i, s |-> seg_start, e |-> dur, cum |-> total + take]
         IN  IF take <= 0
             THEN ScanChoices_offset_everywhere(eps, i + 1, start_ep_idx, start_offset, total, max_sec)
             ELSE IF total + take >= max_sec
             THEN <<choice>>
             ELSE <<choice>> \o
                  ScanChoices_offset_everywhere(eps, i + 1, start_ep_idx, start_offset,
                                                total + take, max_sec)

\* the scan loop: choices (i, seg_start, dur, total), stopping at total >= max_sec
RECURSIVE ScanChoices(_, _, _, _, _, _)
ScanChoices(eps, i, start_ep_idx, start_offset, total, max_sec) ==
    IF i >= Len(eps) THEN <<>>
    ELSE IF probe_duration(eps, i) = ProbeError
         THEN ScanChoices(eps, i + 1, start_ep_idx, start_offset, total, max_sec)
    ELSE LET dur       == probe_duration(eps, i)
             seg_start == IF i = start_ep_idx THEN start_offset ELSE 0
             take      == Max2(0, dur - seg_start)
             choice    == [i |-> i, s |-> seg_start, e |-> dur, cum |-> total + take]
         IN  IF take <= 0
             THEN ScanChoices(eps, i + 1, start_ep_idx, start_offset, total, max_sec)
             ELSE IF total + take >= max_sec
             THEN <<choice>>
             ELSE <<choice>> \o
                  ScanChoices(eps, i + 1, start_ep_idx, start_offset, total + take, max_sec)

\* Python's min(indices, key=...): the first index with the least key
ArgMinFirst(S, key) ==
    CHOOSE j \in S : \A k \in S : key[j] < key[k] \/ (key[j] = key[k] /\ j <= k)

\* the distance measured to max_sec instead of the midpoint
MidDistance_to_max(cum, min_sec, max_sec) == Abs(2 * cum - 2 * max_sec)

\* abs(cum - (min_sec + max_sec) / 2.0), doubled to stay in the integers
MidDistance(cum, min_sec, max_sec) == Abs(2 * cum - (min_sec + max_sec))

\* the choice tuple unpacked with its running total as the end time
Span_cum_as_end(c) == [ep |-> c.i, start |-> c.s, end |-> c.cum]

\* segs.append((episodes[i], s, e))
Span(c) == [ep |-> c.i, start |-> c.s, end |-> c.e]

RECURSIVE TotalDuration(_)
TotalDuration(ss) ==
    IF ss = <<>> THEN 0 ELSE (ss[1].end - ss[1].start) + TotalDuration(Tail(ss))

\* the selection without the minimum-duration filter and final verification
SelectSegments_no_min_check(eps, start_ep_idx, start_offset, min_sec, max_sec) ==
    LET choices == ScanChoices(eps, start_ep_idx, start_ep_idx, start_offset, 0, max_sec)
        valid_choices     == 1..Len(choices)
        preferred_choices == {j \in valid_choices : choices[j].cum <= max_sec}
        DistOf == [j \in 1..Len(choices) |-> MidDistance(choices[j].cum, min_sec, max_sec)]
        CumOf  == [j \in 1..Len(choices) |-> choices[j].cum]
        cut_upto  == IF preferred_choices # {}
                     THEN ArgMinFirst(preferred_choices, DistOf)
                     ELSE ArgMinFirst(valid_choices, CumOf)
    IN  IF choices = <<>> THEN <<>>
        ELSE [j \in 1..cut_upto |-> Span(choices[j])]

\* the selection falling back to the prefix closest to the midpoint
SelectSegments_closest(eps, start_ep_idx, start_offset, min_sec, max_sec) ==
    LET choices == ScanChoices(eps, start_ep_idx, start_ep_idx, start_offset, 0, max_sec)
        in_range  == {j \in 1..Len(choices) :
                         min_sec <= choices[j].cum /\ choices[j].cum <= max_sec}
        DistOf == [j \in 1..Len(choices) |-> MidDistance(choices[j].cum, min_sec, max_sec)]
        cut_upto  == IF in_range # {}
                     THEN ArgMinFirst(in_range, DistOf)
                     ELSE ArgMinFirst(1..Len(choices), DistOf)
    IN  IF choices = <<>> THEN <<>>
        ELSE [j \in 1..cut_upto |-> Span(choices[j])]

\* lines 441-495: scan, choice of the cut and final verification
SelectSegments(eps, start_ep_idx, start_offset, min_sec, max_sec) ==
    LET choices == ScanChoices(eps, start_ep_idx, start_ep_idx, start_offset, 0, max_sec)
        valid_choices     == {j \in 1..Len(choices) : choices[j].cum >= min_sec}
        preferred_choices == {j \in valid_choices : choices[j].cum <= max_sec}
        DistOf == [j \in 1..Len(choices) |-> MidDistance(choices[j].cum, min_sec, max_sec)]
        CumOf  == [j \in 1..Len(choices) |-> choices[j].cum]
        cut_upto  == IF preferred_choices # {}
                     THEN ArgMinFirst(preferred_choices, DistOf)
                     ELSE ArgMinFirst(valid_choices, CumOf)
        picked    == [j \in 1..cut_upto |-> Span(choices[j])]
    IN  IF choices = <<>> THEN <<>>
        ELSE IF valid_choices = {} THEN <<>>
        ELSE IF TotalDuration(picked) < min_sec THEN <<>>
        ELSE picked

build_segments_at_episode_boundaries(eps, start_ep_idx, start_offset, min_sec, max_sec) ==
    LET available_duration == _calculate_available_duration(eps, start_ep_idx, start_offset)
        adjusted_start     == _find_valid_start_point(eps, min_sec, max_sec)
    IN  IF available_duration < min_sec
        THEN IF adjusted_start.found
             THEN [segs  |-> SelectSegments(eps, adjusted_start.ep_idx, adjusted_start.offset,
                                            min_sec, max_sec),
                   start |-> <<adjusted_start.ep_idx, adjusted_start.offset>>]
             ELSE [segs |-> <<>>, start |-> <<start_ep_idx, start_offset>>]
        ELSE [segs  |-> SelectSegments(eps, start_ep_idx, start_offset, min_sec, max_sec),
              start |-> <<start_ep_idx, start_offset>>]

\* ======================================================================
\* core/segments.py: SegmentBuilder.build_segments_at_episode_boundaries
\* (instantiated by DramaProcessor, not called by the encode pipeline)
\* ======================================================================

SegmentBuilder_build_segments(eps, start_episode_idx, start_offset, min_duration, max_duration) ==
    LET choices == ScanChoices(eps, start_episode_idx, start_episode_idx, start_offset,
                               0, max_duration)
        valid_choices == {j \in 1..Len(choices) :
                             min_duration <= choices[j].cum /\ choices[j].cum <= max_duration}
        DistOf == [j \in 1..Len(choices) |-> MidDistance(choices[j].cum, min_duration, max_duration)]
        best_idx  == IF valid_choices # {}
                     THEN ArgMinFirst(valid_choices, DistOf)
                     ELSE ArgMinFirst(1..Len(choices), DistOf)
    IN  IF choices = <<>> THEN <<>>
        ELSE [j \in 1..best_idx |-> Span(choices[j])]

\* ---- inputs of the builder
DurValues     == {0, 200, 300, 400, 500, 1000, ProbeError}
OffsetValues  == {0, 50, 300}
DurationWindows == {<<480, 900>>, <<600, 900>>, <<200, 250>>}

EpisodeLists == UNION {[1..n -> DurValues] : n \in 1..MaxEpisodes}

\* VideoEncoder.process_material line 569
BuildSegments ==
    /\ pcSeg = "input"
    /\ LET r == build_segments_at_episode_boundaries(episodes, startEp, startOff, minSec, maxSec)
       IN  segs' = r.segs /\ usedStart' = r.start
    /\ pcSeg' = "built"
    /\ UNCHANGED <<episodes, startEp, startOff, minSec, maxSec, sbSegs, pcSb>>

\* a direct call of the SegmentBuilder class
SegmentBuilderBuild ==
    /\ pcSb = "input"
    /\ sbSegs' = SegmentBuilder_build_segments(episodes, startEp, startOff, minSec, maxSec)
    /\ pcSb' = "built"
    /\ UNCHANGED <<episodes, startEp, startOff, minSec, maxSec, segs, usedStart, pcSeg>>

\* ---- initial export roots: histories of earlier fresh runs whose older
\* ---- directories may have been removed by the user
InitialSuffixSets ==
    { {},
      {NoSuffix},
      {NoSuffix, <<0, 0, 1>>},
      {<<0, 0, 4>>},
      {NoSuffix, <<9, 9, 8>>},
      {NoSuffix, <<9, 9, 9>>} }

InitialExports(dated) ==
    { [d \in {Dir(ExportRoot(dated), s) : s \in S} |-> {1}] : S \in InitialSuffixSets }

NoPlan == [mode |-> "none", count |-> 0, out_dir |-> NoDir, run_suffix |-> NoSuffix,
           start_index |-> 0, total_to_make |-> 0]

\* DramaProcessor.prepare_project_output_dir, for one series of the batch
PrepareOutputDir(fresh, count) ==
    /\ pcPlan = "idle"
    /\ runs < MaxRuns
    /\ LET r == prepare_project_output_dir(exportDirs, fresh, count, useDate)
       IN  /\ exportDirs' = r.fs
           /\ plan' = [mode |-> IF fresh THEN "fresh" ELSE "resume", count |-> count,
                       out_dir |-> r.out_dir, run_suffix |-> r.run_suffix,
                       start_index |-> r.start_index, total_to_make |-> r.total_to_make]
    /\ prevDirs' = exportDirs
    /\ pcPlan' = "planned"
    /\ runs' = runs + 1
    /\ UNCHANGED useDate

PlannedIndices == plan.start_index .. (plan.start_index + plan.total_to_make - 1)

\* DramaProcessor.process_project_materials: the materials whose EncodeJob
\* succeeds (any subset) are written to out_dir under their index
ProcessMaterials ==
    /\ pcPlan = "planned"
    /\ IF plan.total_to_make <= 0
       THEN UNCHANGED exportDirs
       ELSE \E ok \in SUBSET PlannedIndices :
               exportDirs' = [exportDirs EXCEPT ![plan.out_dir] = @ \cup ok]
    /\ pcPlan' = "idle"
    /\ UNCHANGED <<useDate, prevDirs, plan, runs>>

\* ======================================================================
\* core/encoder.py: VideoEncoder.get_or_build_tail_norm, called by the pool
\* threads of process_project_materials (one call per EncodeJob).  All calls
\* of one series use the same key, hence the same cache_path and the same
\* tmp_out = cache_path + ".tmp.mp4".  A file is an inode; a path names an
\* inode or is absent.
\* ======================================================================

Workers == 1..NumWorkers

NoFile == 0

InodeIds == 1..(NumWorkers + 2)

NoCall == [ret |-> "-", renders |-> 0, refresh |-> FALSE, epoch |-> 0]

NewCall == [renders |-> 0, refresh |-> FALSE, prev |-> NoCall]

\* line 337 with every call rebuilding the entry
CacheHit_never(cache, refreshFlag) == FALSE

\* line 337: os.path.isfile(cache_path) and not refresh
CacheHit(cache, refreshFlag) == cache # NoFile /\ ~refreshFlag

\* an inode id no path and no open file refers to
FreeInode ==
    CHOOSE i \in InodeIds :
        /\ i # tmpPath /\ i # cachePath /\ \A w \in Workers : wfd[w] # i
        /\ \A j \in InodeIds :
             (j # tmpPath /\ j # cachePath /\ \A w \in Workers : wfd[w] # j) => i <= j

EmptyInode == [content |-> "none", writers |-> {}, clobbered |-> FALSE]

\* lines 324-339: the checks before the build
CallGetOrBuild(w) ==
    /\ wpc[w] = "idle"
    /\ calls < MaxCalls
    /\ calls' = calls + 1
    /\ wcall' = [wcall EXCEPT ![w] = [renders |-> 0, refresh |-> refresh, prev |-> lastDone]]
    /\ IF ~tailExists
       THEN /\ wpc' = [wpc EXCEPT ![w] = "done"]
            /\ wret' = [wret EXCEPT ![w] = "None"]
            /\ lastDone' = [ret |-> "None", renders |-> 0, refresh |-> refresh, epoch |-> epoch]
       ELSE IF CacheHit(cachePath, refresh)
       THEN /\ wpc' = [wpc EXCEPT ![w] = "done"]
            /\ wret' = [wret EXCEPT ![w] = "cache_path"]
            /\ lastDone' = [ret |-> "cache_path", renders |-> 0, refresh |-> refresh,
                            epoch |-> epoch]
       ELSE /\ wpc' = [wpc EXCEPT ![w] = "build"]
            /\ UNCHANGED <<wret, lastDone>>
    /\ UNCHANGED <<tailExists, refresh, inodes, tmpPath, cachePath, wfd, observed, epoch>>

\* line 345, norm_tail: ffmpeg -y opens tmp_out for writing, truncating the
\* file the path names or creating one
RenderOpen(w) ==
    /\ wpc[w] = "build"
    /\ LET i == IF tmpPath # NoFile THEN tmpPath ELSE FreeInode
       IN  /\ inodes' = [inodes EXCEPT ![i] =
                            [content   |-> "partial",
                             writers   |-> (IF tmpPath # NoFile THEN @.writers ELSE {}) \cup {w},
                             clobbered |-> tmpPath # NoFile /\ @.writers # {}]]
           /\ tmpPath' = i
           /\ wfd' = [wfd EXCEPT ![w] = i]
    /\ wcall' = [wcall EXCEPT ![w].renders = @ + 1]
    /\ wpc' = [wpc EXCEPT ![w] = "rendering"]
    /\ UNCHANGED <<tailExists, refresh, cachePath, wret, observed, lastDone, calls, epoch>>

\* line 345: ffmpeg fails (or run_ffmpeg times out) before it opens its output
RenderFailEarly(w) ==
    /\ wpc[w] = "build"
    /\ wcall' = [wcall EXCEPT ![w].renders = @ + 1]
    /\ wpc' = [wpc EXCEPT ![w] = "failed"]
    /\ UNCHANGED <<tailExists, refresh, inodes, tmpPath, cachePath, wret, wfd, observed,
                   lastDone, calls, epoch>>

\* what an inode holds once writer w has closed it
ContentsAfterClose(ino, w, ok) ==
    IF ino.writers # {w} THEN {"partial"}
    ELSE IF ~ok THEN {"partial"}
    ELSE IF ino.clobbered THEN {"complete", "corrupt"}
    ELSE {"complete"}

\* line 345: the ffmpeg process of w exits (run_ffmpeg returns or raises)
RenderExit(w, ok) ==
    /\ wpc[w] = "rendering"
    /\ \E c \in ContentsAfterClose(inodes[wfd[w]], w, ok) :
          inodes' = [inodes EXCEPT ![wfd[w]] =
                        [content |-> c, writers |-> @.writers \ {w}, clobbered |-> @.clobbered]]
    /\ wfd' = [wfd EXCEPT ![w] = NoFile]
    /\ wpc' = [wpc EXCEPT ![w] = IF ok THEN "replace" ELSE "failed"]
    /\ UNCHANGED <<tailExists, refresh, tmpPath, cachePath, wret, wcall, observed,
                   lastDone, calls, epoch>>

\* lines 346-348: os.replace(tmp_out, cache_path); FileNotFoundError if tmp_out is gone
ReplaceIntoCache(w) ==
    /\ wpc[w] = "replace"
    /\ IF tmpPath = NoFile
       THEN /\ wpc' = [wpc EXCEPT ![w] = "failed"]
            /\ UNCHANGED <<tmpPath, cachePath, wret, lastDone>>
       ELSE /\ cachePath' = tmpPath
            /\ tmpPath' = NoFile
            /\ wpc' = [wpc EXCEPT ![w] = "done"]
            /\ wret' = [wret EXCEPT ![w] = "cache_path"]
            /\ lastDone' = [ret |-> "cache_path", renders |-> wcall[w].renders,
                            refresh |-> wcall[w].refresh, epoch |-> epoch]
    /\ UNCHANGED <<tailExists, refresh, inodes, wfd, wcall, observed, calls, epoch>>

\* the except branch without the removal of tmp_out
CleanupAfterFailure_keeps_tmp(w) ==
    /\ wpc[w] = "failed"
    /\ wpc' = [wpc EXCEPT ![w] = "done"]
    /\ wret' = [wret EXCEPT ![w] = "None"]
    /\ lastDone' = [ret |-> "None", renders |-> wcall[w].renders,
                    refresh |-> wcall[w].refresh, epoch |-> epoch]
    /\ UNCHANGED <<tailExists, refresh, inodes, tmpPath, cachePath, wfd, wcall, observed,
                   calls, epoch>>

\* lines 349-356: the except branch removes tmp_out if it exists, returns None
CleanupAfterFailure(w) ==
    /\ wpc[w] = "failed"
    /\ tmpPath' = NoFile
    /\ wpc' = [wpc EXCEPT ![w] = "done"]
    /\ wret' = [wret EXCEPT ![w] = "None"]
    /\ lastDone' = [ret |-> "None", renders |-> wcall[w].renders,
                    refresh |-> wcall[w].refresh, epoch |-> epoch]
    /\ UNCHANGED <<tailExists, refresh, inodes, cachePath, wfd, wcall, observed, calls, epoch>>

\* process_material lines 628-636: the caller concatenates the returned file
\* onto its material (reads cache_path), or goes on without an outro
UseTail(w) ==
    /\ wpc[w] = "done"
    /\ observed' = [observed EXCEPT ![w] =
                       IF wret[w] = "cache_path" /\ cachePath # NoFile
                       THEN inodes[cachePath].content ELSE "none"]
    /\ wpc' = [wpc EXCEPT ![w] = "idle"]
    /\ wret' = [wret EXCEPT ![w] = "-"]
    /\ wcall' = [wcall EXCEPT ![w] = NewCall]
    /\ UNCHANGED <<tailExists, refresh, inodes, tmpPath, cachePath, wfd, lastDone, calls, epoch>>

\* the batch ends and the tool is started again: nothing but the files survives
ProcessRestart(newRefresh) ==
    /\ \A w \in Workers : wpc[w] = "idle"
    /\ epoch < MaxRestarts
    /\ epoch' = epoch + 1
    /\ refresh' = newRefresh
    /\ observed' = [w \in Workers |-> "none"]
    /\ UNCHANGED <<tailExists, inodes, tmpPath, cachePath, wpc, wret, wfd, wcall,
                   lastDone, calls>>

----------------------------------------------------------------------------
\* One EncodeJob: VideoEncoder.process_material, its external processes and
\* its scratch directory.  The job is run by worker JobWorker of the outro
\* cache above.

JobWorker == 1

\* what an external process does once it is started
ProcBehaviours == {"exit0", "exit1", "never_exits"}

\* utils/video.py line 58: subprocess.run is given no timeout
NoTimeout == 0

\* core/encoder.py line 82: timeout=300
FfmpegTimeout == 300

\* subprocess.run(cmd, timeout=...): waits for the process to exit, for at
\* most timeout seconds when a timeout is given
subprocess_run(beh, timeout) ==
    IF beh = "never_exits"
    THEN IF timeout = NoTimeout THEN "blocked" ELSE "TimeoutExpired"
    ELSE beh

\* run_ffmpeg: TimeoutExpired and a non-zero exit status both raise RuntimeError
run_ffmpeg(beh) ==
    LET r == subprocess_run(beh, FfmpegTimeout)
    IN  IF r = "exit0" THEN "ok" ELSE IF r = "blocked" THEN "blocked" ELSE "RuntimeError"

\* probe_video_stream: subprocess.run(..., check=True) without a timeout
probe_video_stream(beh) ==
    LET r == subprocess_run(beh, NoTimeout)
    IN  IF r = "exit0" THEN "ok" ELSE IF r = "blocked" THEN "blocked"
        ELSE "CalledProcessError"

\* norm_and_trim that lets a hardware failure through
norm_and_trim_no_fallback(use_hw, behHw, behSw) ==
    LET r1 == run_ffmpeg(IF use_hw THEN behHw ELSE behSw)
    IN  [attempts |-> <<[enc |-> (IF use_hw THEN "hw" ELSE "sw"), ok |-> r1 = "ok"]>>,
         result   |-> IF r1 = "ok" THEN "ok" ELSE IF r1 = "blocked" THEN "blocked" ELSE "raised"]

\* norm_and_trim lines 281-288: one ffmpeg run with the preferred encoder; if
\* it raises and use_hw is set, one more run with the software encoder
norm_and_trim(use_hw, behHw, behSw) ==
    LET r1 == run_ffmpeg(IF use_hw THEN behHw ELSE behSw)
        a1 == [enc |-> (IF use_hw THEN "hw" ELSE "sw"), ok |-> r1 = "ok"]
    IN  IF r1 = "ok" THEN [attempts |-> <<a1>>, result |-> "ok"]
        ELSE IF r1 = "blocked" THEN [attempts |-> <<a1>>, result |-> "blocked"]
        ELSE IF use_hw
        THEN LET r2 == run_ffmpeg(behSw)
             IN  [attempts |-> <<a1, [enc |-> "sw", ok |-> r2 = "ok"]>>,
                  result   |-> IF r2 = "ok" THEN "ok"
                               ELSE IF r2 = "blocked" THEN "blocked" ELSE "raised"]
        ELSE [attempts |-> <<a1>>, result |-> "raised"]

\* line 550: workdir = tempfile.mkdtemp(...)
JobStart ==
    /\ jpc \in {"idle", "ended"}
    /\ jobsRun < MaxJobs
    /\ jobsRun' = jobsRun + 1
    /\ workdir' = TRUE
    /\ jpc' = "segments"
    /\ nSegs' = 0 /\ segIdx' = 0 /\ encLog' = <<>> /\ finalSrc' = "-"
    /\ outWritten' = FALSE /\ jobResult' = "-" /\ raisedAt' = "-"
    /\ tailRet' = "-" /\ tailRenders' = 0 /\ cacheAtCall' = NoFile
    /\ UNCHANGED <<keepTemp, useHw, outroVars>>

\* lines 568-573: build_segments_at_episode_boundaries probes the episodes
\* (a failing probe is skipped by the builder); an empty plan returns None
JobBuildSegments(beh, n) ==
    /\ jpc = "segments"
    /\ LET p == probe_video_stream(beh)
           m == IF p = "ok" THEN n ELSE 0
       IN  IF p = "blocked"
           THEN /\ jpc' = "blocked"
                /\ UNCHANGED <<nSegs, segIdx, jobResult>>
           ELSE IF m = 0
           THEN /\ jobResult' = "None"
                /\ jpc' = "finally"
                /\ UNCHANGED <<nSegs, segIdx>>
           ELSE /\ nSegs' = m
                /\ segIdx' = 1
                /\ jpc' = "encode"
                /\ UNCHANGED jobResult
    /\ UNCHANGED <<keepTemp, useHw, workdir, encLog, finalSrc, outWritten, raisedAt,
                   tailRet, tailRenders, cacheAtCall, jobsRun, outroVars>>

\* lines 599-607: one iteration of the encode loop
JobEncodeSegment(behHw, behSw) ==
    /\ jpc = "encode"
    /\ LET r == norm_and_trim(useHw, behHw, behSw)
       IN  /\ encLog' = encLog \o [k \in 1..Len(r.attempts) |->
                                      [seg |-> segIdx, enc |-> r.attempts[k].enc,
                                       ok |-> r.attempts[k].ok]]
           /\ IF r.result = "ok"
              THEN /\ segIdx' = IF segIdx < nSegs THEN segIdx + 1 ELSE segIdx
                   /\ jpc' = IF segIdx < nSegs THEN "encode" ELSE "concat"
                   /\ UNCHANGED <<jobResult, raisedAt>>
              ELSE IF r.result = "blocked"
              THEN /\ jpc' = "blocked"
                   /\ UNCHANGED <<segIdx, jobResult, raisedAt>>
              ELSE /\ jobResult' = "raised"
                   /\ raisedAt' = "encode"
                   /\ jpc' = "finally"
                   /\ UNCHANGED segIdx
    /\ UNCHANGED <<keepTemp, useHw, workdir, nSegs, finalSrc, outWritten,
                   tailRet, tailRenders, cacheAtCall, jobsRun, outroVars>>

\* lines 609-617: concat_videos of the encoded parts
JobConcatMain(beh) ==
    /\ jpc = "concat"
    /\ LET r == run_ffmpeg(beh)
       IN  IF r = "ok"
           THEN /\ finalSrc' = "concat_main"
                /\ jpc' = "tail"
                /\ UNCHANGED <<jobResult, raisedAt>>
           ELSE IF r = "blocked"
           THEN /\ jpc' = "blocked"
                /\ UNCHANGED <<finalSrc, jobResult, raisedAt>>
           ELSE /\ jobResult' = "raised"
                /\ raisedAt' = "concat"
                /\ jpc' = "finally"
                /\ UNCHANGED finalSrc
    /\ UNCHANGED <<keepTemp, useHw, workdir, nSegs, segIdx, encLog, outWritten,
                   tailRet, tailRenders, cacheAtCall, jobsRun, outroVars>>

\* lines 618, 637-639: no tail file, the job goes on without an outro
JobSkipTail ==
    /\ jpc = "tail"
    /\ ~tailExists
    /\ tailRet' = "skipped"
    /\ jpc' = "remux"
    /\ UNCHANGED <<keepTemp, useHw, workdir, nSegs, segIdx, encLog, finalSrc, outWritten,
                   jobResult, raisedAt, tailRenders, cacheAtCall, jobsRun, outroVars>>

\* lines 618-626: the job calls get_or_build_tail_norm
JobCallTail ==
    /\ jpc = "tail"
    /\ tailExists
    /\ CallGetOrBuild(JobWorker)
    /\ cacheAtCall' = cachePath
    /\ jpc' = "tail_call"
    /\ UNCHANGED <<keepTemp, useHw, workdir, nSegs, segIdx, encLog, finalSrc, outWritten,
                   jobResult, raisedAt, tailRet, tailRenders, jobsRun>>

\* lines 627-636: get_or_build_tail_norm has returned; a usable cache file is
\* concatenated onto the material, otherwise the outro is skipped
JobTailReturn(beh) ==
    /\ jpc = "tail_call"
    /\ UseTail(JobWorker)
    /\ tailRet' = wret[JobWorker]
    /\ tailRenders' = wcall[JobWorker].renders
    /\ IF wret[JobWorker] = "cache_path" /\ cachePath # NoFile
       THEN LET r == run_ffmpeg(beh)
            IN  IF r = "ok"
                THEN /\ finalSrc' = "concat_with_tail"
                     /\ jpc' = "remux"
                     /\ UNCHANGED <<jobResult, raisedAt>>
                ELSE IF r = "blocked"
                THEN /\ jpc' = "blocked"
                     /\ UNCHANGED <<finalSrc, jobResult, raisedAt>>
                ELSE /\ jobResult' = "raised"
                     /\ raisedAt' = "tail_concat"
                     /\ jpc' = "finally"
                     /\ UNCHANGED finalSrc
       ELSE /\ jpc' = "remux"
            /\ UNCHANGED <<finalSrc, jobResult, raisedAt>>
    /\ UNCHANGED <<keepTemp, useHw, workdir, nSegs, segIdx, encLog, outWritten,
                   cacheAtCall, jobsRun>>

\* lines 643-665: the final remux to out_path, then the duration probe of the
\* written file (its exceptions are caught)
JobRemux(beh, behProbe) ==
    /\ jpc = "remux"
    /\ LET r == run_ffmpeg(beh)
           p == probe_video_stream(behProbe)
       IN  IF r = "blocked"
           THEN /\ jpc' = "blocked"
                /\ UNCHANGED <<outWritten, jobResult, raisedAt>>
           ELSE IF r # "ok"
           THEN /\ jobResult' = "raised"
                /\ raisedAt' = "remux"
                /\ jpc' = "finally"
                /\ UNCHANGED outWritten
           ELSE IF p = "blocked"
           THEN /\ outWritten' = TRUE
                /\ jpc' = "blocked"
                /\ UNCHANGED <<jobResult, raisedAt>>
           ELSE /\ outWritten' = TRUE
                /\ jobResult' = "path"
                /\ jpc' = "finally"
                /\ UNCHANGED raisedAt
    /\ UNCHANGED <<keepTemp, useHw, workdir, nSegs, segIdx, encLog, finalSrc,
                   tailRet, tailRenders, cacheAtCall, jobsRun, outroVars>>

\* the removal placed after the last statement of the try block instead of in
\* a finally clause
JobFinally_on_success ==
    /\ jpc = "finally"
    /\ workdir' = IF keepTemp \/ jobResult # "path" THEN workdir ELSE FALSE
    /\ jpc' = "ended"
    /\ UNCHANGED <<keepTemp, useHw, nSegs, segIdx, encLog, finalSrc, outWritten,
                   jobResult, raisedAt, tailRet, tailRenders, cacheAtCall, jobsRun, outroVars>>

\* lines 668-675: finally: shutil.rmtree(workdir) unless keep_temp
JobFinally ==
    /\ jpc = "finally"
    /\ workdir' = IF keepTemp THEN workdir ELSE FALSE
    /\ jpc' = "ended"
    /\ UNCHANGED <<keepTemp, useHw, nSegs, segIdx, encLog, finalSrc, outWritten,
                   jobResult, raisedAt, tailRet, tailRenders, cacheAtCall, jobsRun, outroVars>>

----------------------------------------------------------------------------
\* Start points and the cut-point history: AIEnhancedProcessor
\* (ai/ai_enhanced_processor.py) over DramaProcessor.generate_start_points.
\* A cut point is <<episode_idx, timestamp>>; lists are sequences.

\* runs of the tool working on the same series, possibly at the same time
CutRuns == {1, 2}

\* the run of the tool that is followed alone
SingleRun == {1}

NoCutPlan == [start_index |-> 0, count |-> 0]

\* line 43: self.exclusion_radius = 30.0
exclusion_radius == 30

\* line 262: max_attempts = count * 10
AttemptsPerPoint == 10

\* the points the random generator can return in the model
CandidatePoints == {<<0, 0>>, <<0, 30>>, <<1, 0>>}

\* the random source: attempt i draws draws[i], the last element from then on
Draw(draws, i) == draws[Min2(i, Len(draws))]

\* the loop of _is_cut_point_excluded with <= in place of <
RECURSIVE ExcludedFrom_inclusive(_, _, _, _)
ExcludedFrom_inclusive(used, i, episode_idx, timestamp) ==
    IF i > Len(used) THEN FALSE
    ELSE IF used[i][1] = episode_idx /\ Abs(timestamp - used[i][2]) <= exclusion_radius
         THEN TRUE
         ELSE ExcludedFrom_inclusive(used, i + 1, episode_idx, timestamp)

\* lines 136-141: the loop over self.used_cut_points, from its i-th element
RECURSIVE ExcludedFrom(_, _, _, _)
ExcludedFrom(used, i, episode_idx, timestamp) ==
    IF i > Len(used) THEN FALSE
    ELSE IF used[i][1] = episode_idx /\ Abs(timestamp - used[i][2]) < exclusion_radius
         THEN TRUE
         ELSE ExcludedFrom(used, i + 1, episode_idx, timestamp)

_is_cut_point_excluded(used, episode_idx, timestamp) ==
    ExcludedFrom(used, 1, episode_idx, timestamp)

\* generate_start_points with range(count - 1)
generate_start_points_one_short(random_start, num_episodes, count, draws) ==
    IF random_start
    THEN [i \in 1..(count - 1) |-> Draw(draws, i)]
    ELSE [i \in 1..(count - 1) |->
             <<Min2((i - 1) * Max2(1, num_episodes \div Max2(1, count)), num_episodes - 1), 0>>]

\* DramaProcessor.generate_start_points (core/processor.py 257-283)
generate_start_points(random_start, num_episodes, count, draws) ==
    IF random_start
    THEN [i \in 1..count |-> Draw(draws, i)]
    ELSE [i \in 1..count |->
             <<Min2((i - 1) * Max2(1, num_episodes \div Max2(1, count)), num_episodes - 1), 0>>]

\* lines 264-281: the while loop of _generate_random_start_points_with_dedup
RECURSIVE DedupLoop(_, _, _, _, _, _, _)
DedupLoop(used, start_points, attempts, count, random_start, num_episodes, draws) ==
    IF ~(Len(start_points) < count /\ attempts < count * AttemptsPerPoint)
    THEN [points |-> start_points, used |-> used]
    ELSE LET pt == generate_start_points(random_start, num_episodes, 1,
                                         <<Draw(draws, attempts + 1)>>)[1]
         IN  IF ~_is_cut_point_excluded(used, pt[1], pt[2])
             THEN DedupLoop(Append(used, pt), Append(start_points, pt), attempts + 1,
                            count, random_start, num_episodes, draws)
             ELSE DedupLoop(used, start_points, attempts + 1,
                            count, random_start, num_episodes, draws)

\* lines 250-286
_generate_random_start_points_with_dedup(used, enable_dedup, random_start, num_episodes, count, draws) ==
    IF ~enable_dedup
    THEN LET sp == generate_start_points(random_start, num_episodes, count, draws)
         IN  [points |-> sp, used |-> used \o sp]
    ELSE DedupLoop(used, <<>>, 0, count, random_start, num_episodes, draws)

\* lines 196-248: optimal is the list of timestamps the scene analyzer found
_generate_ai_start_points(used, enable_dedup, random_start, num_episodes, count, draws, optimal) ==
    LET NotExcluded(ts) == ~_is_cut_point_excluded(used, 0, ts)
        filtered == IF enable_dedup THEN SelectSeq(optimal, NotExcluded) ELSE optimal
        selected == SubSeq(filtered, 1, Min2(count, Len(filtered)))
        sp       == [i \in 1..Len(selected) |-> <<0, selected[i]>>]
        used1    == IF enable_dedup THEN used \o sp ELSE used
    IN  IF optimal = <<>> \/ filtered = <<>>
        THEN _generate_random_start_points_with_dedup(used, enable_dedup, random_start,
                                                      num_episodes, count, draws)
        ELSE IF Len(sp) < count
        THEN LET r == _generate_random_start_points_with_dedup(
                          used1, enable_dedup, random_start, num_episodes,
                          count - Len(sp), draws)
             IN  [points |-> sp \o r.points, used |-> r.used]
        ELSE [points |-> sp, used |-> used1]

\* lines 180-194: AIEnhancedProcessor.generate_start_points
ai_generate_start_points(used, enable_dedup, scene_detection, random_start, num_episodes, count, draws, optimal) ==
    IF count <= 0 THEN [points |-> <<>>, used |-> used]
    ELSE IF scene_detection
    THEN _generate_ai_start_points(used, enable_dedup, random_start, num_episodes, count,
                                   draws, optimal)
    ELSE _generate_random_start_points_with_dedup(used, enable_dedup, random_start,
                                                  num_episodes, count, draws)

\* inputs of the model
DrawSeqs == UNION {[1..n -> CandidatePoints] : n \in 1..MaxDraws}
OptimalSeqs == {<<>>, <<30>>, <<0, 20>>}
InitialHistories == {<<>>, << <<0, 0>> >>, << <<0, 30>>, <<1, 0>> >>}

\* lines 149-161: load the series' history (an unreadable file loads as [])
CutLoad(p, readable) ==
    /\ cpc[p] = "idle"
    /\ rounds < MaxRounds
    /\ rounds' = rounds + 1
    /\ LET historical == IF dedup /\ readable THEN cfile ELSE <<>>
       IN  /\ cused' = [cused EXCEPT ![p] = @ \o historical]
           /\ cinit' = [cinit EXCEPT ![p] = Len(cused[p] \o historical)]
    /\ cpc' = [cpc EXCEPT ![p] = "loaded"]
    /\ UNCHANGED <<cfile, cstart, cdisp, cplan, dedup, randomStart, sceneDetect>>

\* the dispatch loop numbering the materials from start_index + 1
CutGenerateAndDispatch_index_from_one(p, count, start_index, draws, optimal) ==
    /\ cpc[p] = "loaded"
    /\ LET r == ai_generate_start_points(cused[p], dedup, sceneDetect, randomStart,
                                         NumSeriesEpisodes, count, draws, optimal)
       IN  /\ cstart' = [cstart EXCEPT ![p] = r.points]
           /\ cused' = [cused EXCEPT ![p] = r.used]
           /\ cdisp' = [cdisp EXCEPT ![p] = [i \in 1..Len(r.points) |-> start_index + i]]
    /\ cplan' = [cplan EXCEPT ![p] = [start_index |-> start_index, count |-> count]]
    /\ cpc' = [cpc EXCEPT ![p] = "dispatched"]
    /\ UNCHANGED <<cfile, cinit, dedup, randomStart, sceneDetect, rounds>>

\* line 164 into core/processor.py 349-395: the start points are generated and
\* one task per start point is dispatched, with material_idx = start_index + i
CutGenerateAndDispatch(p, count, start_index, draws, optimal) ==
    /\ cpc[p] = "loaded"
    /\ LET r == ai_generate_start_points(cused[p], dedup, sceneDetect, randomStart,
                                         NumSeriesEpisodes, count, draws, optimal)
       IN  /\ cstart' = [cstart EXCEPT ![p] = r.points]
           /\ cused' = [cused EXCEPT ![p] = r.used]
           /\ cdisp' = [cdisp EXCEPT ![p] =
                           [i \in 1..Len(r.points) |-> start_index + (i - 1)]]
    /\ cplan' = [cplan EXCEPT ![p] = [start_index |-> start_index, count |-> count]]
    /\ cpc' = [cpc EXCEPT ![p] = "dispatched"]
    /\ UNCHANGED <<cfile, cinit, dedup, randomStart, sceneDetect, rounds>>

\* lines 168-178 and _save_used_cut_points: the file is opened with 'w' and
\* the whole in-memory list is written; process_project_materials returns.
\* A run handles the series once: the next call belongs to a new run of the
\* tool, which starts with an empty list (line 42)
CutSave(p, completed_count) ==
    /\ cpc[p] = "dispatched"
    /\ completed_count <= Len(cstart[p])
    /\ cfile' = IF dedup /\ completed_count > 0 /\ Len(cused[p]) - cinit[p] > 0
                THEN cused[p] ELSE cfile
    /\ cstart' = [cstart EXCEPT ![p] = <<>>]
    /\ cdisp' = [cdisp EXCEPT ![p] = <<>>]
    /\ cplan' = [cplan EXCEPT ![p] = NoCutPlan]
    /\ cused' = [cused EXCEPT ![p] = <<>>]
    /\ cinit' = [cinit EXCEPT ![p] = 0]
    /\ cpc' = [cpc EXCEPT ![p] = "idle"]
    /\ UNCHANGED <<dedup, randomStart, sceneDetect, rounds>>

----------------------------------------------------------------------------
\* One batch run: DramaProcessor.process_all_dramas and the dispatch of a
\* series' materials in process_project_materials (core/processor.py).

SeriesIds == 1..NumSeries

\* what VideoEncoder.process_material does for one material: returns the
\* output path, returns None, or raises
MaterialResults == {"path", "None", "raised"}

\* tasks of a series that have been started and have not returned
RunningTasks(ts) == {i \in 1..Len(ts) : ts[i] \in {"running", "blocked"}}

\* every dispatched task has returned
AllReturned(ts) == \A i \in 1..Len(ts) : ts[i] \in {"ok", "failed", "cancelled"}

\* lines 531-560: one iteration of the series loop up to the dispatch.
\* outcome: "raise" (create_drama_project, probing or directory planning
\* raised), "skip" (no episodes, or nothing to make), "plan" with n start points
BatchSeriesBegin(outcome, n) ==
    /\ bpc = "series"
    /\ bSeries \in SeriesIds
    /\ IF outcome = "plan" /\ (jobsLimit = 1 \/ jobsLimit > 0)
       THEN /\ bTasks' = [bTasks EXCEPT ![bSeries] = [i \in 1..n |-> "queued"]]
            /\ bpc' = "pool"
            /\ UNCHANGED <<bSeries, bOutcome>>
       ELSE /\ bOutcome' = [bOutcome EXCEPT ![bSeries] =
                               IF outcome = "skip" THEN "skipped" ELSE "raised"]
            /\ bSeries' = bSeries + 1
            /\ bpc' = IF bSeries = NumSeries THEN "finished" ELSE "series"
            /\ UNCHANGED bTasks
    /\ UNCHANGED <<jobsLimit, bProduced, bCompleted, totalDone>>

\* lines 369-377 and 393-402: the next task in dispatch order starts, inline
\* when jobs == 1, on a free pool thread otherwise
BatchTaskStart(i) ==
    /\ bpc = "pool"
    /\ i \in 1..Len(bTasks[bSeries])
    /\ bTasks[bSeries][i] = "queued"
    /\ \A j \in 1..(i - 1) : bTasks[bSeries][j] # "queued"
    /\ Cardinality(RunningTasks(bTasks[bSeries])) < jobsLimit
    /\ bTasks' = [bTasks EXCEPT ![bSeries][i] = "running"]
    /\ UNCHANGED <<bpc, bSeries, jobsLimit, bOutcome, bProduced, bCompleted, totalDone>>

\* a failing task that takes the tasks not yet started with it
BatchTaskEnd_abort_on_failure(i, result) ==
    /\ bpc = "pool"
    /\ i \in 1..Len(bTasks[bSeries])
    /\ bTasks[bSeries][i] = "running"
    /\ bTasks' = [bTasks EXCEPT ![bSeries] =
                     [j \in 1..Len(@) |->
                         IF j = i THEN (IF result # "raised" THEN "ok" ELSE "failed")
                         ELSE IF result = "raised" /\ @[j] = "queued" THEN "cancelled" ELSE @[j]]]
    /\ bProduced' = [bProduced EXCEPT ![bSeries] = IF result = "path" THEN @ \cup {i} ELSE @]
    /\ bCompleted' = [bCompleted EXCEPT ![bSeries] = IF result # "raised" THEN @ + 1 ELSE @]
    /\ UNCHANGED <<bpc, bSeries, jobsLimit, bOutcome, totalDone>>

\* lines 357-365, 378-381 and 407-410: process_task returns and its result is
\* collected. result is what process_material did: "path" (output written),
\* "None" (no usable segment plan: it returns None and process_single_material
\* returns its elapsed time), "raised" (process_task caught the exception).
\* completed_count advances whenever process_task reports no error
BatchTaskEnd(i, result) ==
    /\ bpc = "pool"
    /\ i \in 1..Len(bTasks[bSeries])
    /\ bTasks[bSeries][i] = "running"
    /\ bTasks' = [bTasks EXCEPT ![bSeries][i] = IF result # "raised" THEN "ok" ELSE "failed"]
    /\ bProduced' = [bProduced EXCEPT ![bSeries] = IF result = "path" THEN @ \cup {i} ELSE @]
    /\ bCompleted' = [bCompleted EXCEPT ![bSeries] = IF result # "raised" THEN @ + 1 ELSE @]
    /\ UNCHANGED <<bpc, bSeries, jobsLimit, bOutcome, totalDone>>

\* the task waits on an external process that never exits (ffprobe has no
\* timeout)
BatchTaskBlocks(i) ==
    /\ bpc = "pool"
    /\ i \in 1..Len(bTasks[bSeries])
    /\ bTasks[bSeries][i] = "running"
    /\ bTasks' = [bTasks EXCEPT ![bSeries][i] = "blocked"]
    /\ UNCHANGED <<bpc, bSeries, jobsLimit, bOutcome, bProduced, bCompleted, totalDone>>

\* the series loop going on as soon as every task has been submitted
BatchSeriesEnd_no_wait(post_raises) ==
    /\ bpc = "pool"
    /\ \A i \in 1..Len(bTasks[bSeries]) : bTasks[bSeries][i] # "queued"
    /\ bOutcome' = [bOutcome EXCEPT ![bSeries] =
                       IF post_raises THEN "raised_after" ELSE "processed"]
    /\ totalDone' = totalDone + bCompleted[bSeries]
    /\ bSeries' = bSeries + 1
    /\ bpc' = IF bSeries = NumSeries THEN "finished" ELSE "series"
    /\ UNCHANGED <<jobsLimit, bTasks, bProduced, bCompleted>>

\* lines 379-391, 404-425 and 563-632: the loop (or the with block of the
\* pool) is left once every task has returned and completed_count is added
\* to total_materials_done (line 583); the series' bookkeeping follows, and
\* an exception in it is caught by the series loop
BatchSeriesEnd(post_raises) ==
    /\ bpc = "pool"
    /\ AllReturned(bTasks[bSeries])
    /\ bOutcome' = [bOutcome EXCEPT ![bSeries] =
                       IF post_raises THEN "raised_after" ELSE "processed"]
    /\ totalDone' = totalDone + bCompleted[bSeries]
    /\ bSeries' = bSeries + 1
    /\ bpc' = IF bSeries = NumSeries THEN "finished" ELSE "series"
    /\ UNCHANGED <<jobsLimit, bTasks, bProduced, bCompleted>>

----------------------------------------------------------------------------
\* One AIEnhancedProcessor over the series of a batch: the list
\* self.used_cut_points is created once (ai_enhanced_processor.py line 42)
\* and every series' process_project_materials works on it in turn.
\* Materials of a series are processed one after the other (config.jobs = 1).

\* config.min_duration and config.max_duration (defaults)
StoreMinSec == 480
StoreMaxSec == 900

\* probed durations of the episodes of every series of the batch
StoreEpisodes == [i \in 1..NumSeriesEpisodes |-> IF i = 1 THEN 500 ELSE 300]

\* sorted_points of one material: timestamps the scene analyzer found in the
\* analysed episode, in decreasing order of confidence
MaterialCandidates == {<<>>, <<10>>, <<10, 50>>}

\* config.count of the batch in the model
StoreCounts == {1, 2}

\* a single draw of the random source, repeated on every attempt
StoreDraws == [1..1 -> CandidatePoints]

\* files left by earlier runs: a series' file holds points used in it
StoredHistories == {<<>>, << <<0, 0>> >>}

\* lines 405-438: with at most 10 episodes last_10_episodes_threshold is 0,
\* every start episode lies in "the last 10" and max_valid_start is -1: the
\* analysed episode is the first one
adjusted_start_idx(total_episodes, start_ep_idx) == 0

\* lines 511-532: the first candidate, in order of confidence, that
\* _is_cut_point_excluded lets through is selected and recorded; if there is
\* none the best candidate is used all the same
_find_optimal_segments_with_ai_for_material(used, episode_idx, sorted_points) ==
    IF sorted_points = <<>>
    THEN [found |-> FALSE, point |-> <<episode_idx, 0>>, used |-> used, skipped |-> FALSE]
    ELSE LET free == {j \in 1..Len(sorted_points) :
                         ~_is_cut_point_excluded(used, episode_idx, sorted_points[j])}
             best_point == <<episode_idx, sorted_points[1]>>
         IN  IF free # {}
             THEN LET selected_point == <<episode_idx, sorted_points[LeastOf(free)]>>
                  IN  [found |-> TRUE, point |-> selected_point,
                       used |-> Append(used, selected_point),
                       skipped |-> LeastOf(free) > 1]
             ELSE [found |-> TRUE, point |-> best_point,
                   used |-> Append(used, best_point), skipped |-> FALSE]

\* the origin list extended to the length of a grown point list
OriginsFor(origins, used, series) ==
    [i \in 1..Len(used) |-> IF i <= Len(origins) THEN origins[i] ELSE series]

\* lines 149-161: the series' history is appended to self.used_cut_points
\* (an unreadable file loads as [])
StoreSeriesLoad(readable) ==
    /\ spc = "idle"
    /\ LET historical == IF dedup /\ readable THEN sfiles[scur] ELSE <<>>
           origins    == IF dedup /\ readable THEN sfileOrigin[scur] ELSE <<>>
       IN  /\ sused' = sused \o historical
           /\ sorigin' = sorigin \o origins
           /\ sinit' = Len(sused \o historical)
    /\ sAccess' = IF dedup THEN sAccess \cup {"read"} ELSE sAccess
    /\ spc' = "loaded"
    /\ UNCHANGED <<sfiles, sfileOrigin, sstart, smat, sactual, scompleted, sskipped, scur>>

\* line 164 into core/processor.py 349: the series' start points
StoreGenerate(count, draws, optimal) ==
    /\ spc = "loaded"
    /\ LET r == ai_generate_start_points(sused, dedup, sceneDetect, randomStart,
                                         NumSeriesEpisodes, count, draws, optimal)
       IN  /\ sstart' = r.points
           /\ sused' = r.used
           /\ sorigin' = OriginsFor(sorigin, r.used, scur)
    /\ smat' = 1
    /\ sactual' = <<>>
    /\ scompleted' = 0
    /\ sskipped' = FALSE
    /\ spc' = "materials"
    /\ UNCHANGED <<sfiles, sfileOrigin, sinit, sAccess, scur>>

\* AIEnhancedProcessor.process_single_material (lines 298-349) for the next
\* start point: with scene detection the material is cut from the point
\* _find_optimal_segments_with_ai_for_material selects, otherwise (or when the
\* analyzer finds nothing) from the start point as the segment builder of
\* VideoEncoder.process_material anchors it. ok: the encode steps succeed
StoreMaterial(sorted_points, ok) ==
    /\ spc = "materials"
    /\ smat <= Len(sstart)
    /\ LET start_ep_idx == sstart[smat][1]
           start_offset == sstart[smat][2]
           sel == IF sceneDetect
                  THEN _find_optimal_segments_with_ai_for_material(
                           sused, adjusted_start_idx(NumSeriesEpisodes, start_ep_idx),
                           sorted_points)
                  ELSE [found |-> FALSE, point |-> <<0, 0>>, used |-> sused,
                        skipped |-> FALSE]
           built == build_segments_at_episode_boundaries(
                        StoreEpisodes, start_ep_idx, start_offset, StoreMinSec, StoreMaxSec)
           produced == ok /\ (sel.found \/ built.segs # <<>>)
           cut_from == IF sel.found THEN sel.point ELSE built.start
       IN  /\ sused' = sel.used
           /\ sorigin' = OriginsFor(sorigin, sel.used, scur)
           /\ sskipped' = (sskipped \/ sel.skipped)
           /\ sactual' = IF produced THEN Append(sactual, cut_from) ELSE sactual
           /\ scompleted' = IF ok THEN scompleted + 1 ELSE scompleted
    /\ smat' = smat + 1
    /\ UNCHANGED <<sfiles, sfileOrigin, sinit, sstart, sAccess, scur, spc>>

\* lines 168-178: after the last material the whole list is written to the
\* series' file, and the batch goes on to the next series
StoreSeriesSave ==
    /\ spc = "materials"
    /\ smat > Len(sstart)
    /\ LET saves == dedup /\ scompleted > 0 /\ Len(sused) - sinit > 0
       IN  /\ sfiles' = IF saves THEN [sfiles EXCEPT ![scur] = sused] ELSE sfiles
           /\ sfileOrigin' = IF saves THEN [sfileOrigin EXCEPT ![scur] = sorigin]
                             ELSE sfileOrigin
           /\ sAccess' = IF saves THEN sAccess \cup {"write"} ELSE sAccess
    /\ sstart' = <<>>
    /\ sactual' = <<>>
    /\ smat' = 0
    /\ scur' = scur + 1
    /\ spc' = IF scur = NumSeries THEN "finished" ELSE "idle"
    /\ UNCHANGED <<sused, sorigin, sinit, scompleted, sskipped>>

----------------------------------------------------------------------------
\* integrations/feishu_watcher.py: FeishuWatcher polling the workflow table
\* and running one task per date on self.executor
\* (ThreadPoolExecutor(max_workers=self.max_dates), line 55).

\* date labels, numbered in the order of _date_sort_key; none is before today
Dates == 1..NumDates

\* _priority_value: (group, abs(delta), date); for dates from today on the
\* nearer date has the lower tuple, i.e. the higher priority
_priority_value(d) == d

NoTask == 0

ActiveDates(active) == {d \in Dates : active[d] # NoTask}

\* _get_lowest_priority_date: the active date with the greatest priority tuple
_get_lowest_priority_date(active) ==
    CHOOSE d \in ActiveDates(active) :
        \A e \in ActiveDates(active) : _priority_value(e) <= _priority_value(d)

\* _cleanup_finished_tasks: tasks whose future is done leave active_tasks
_cleanup_finished_tasks(active, tasks) ==
    [d \in Dates |-> IF active[d] # NoTask /\ tasks[active[d]].state = "done"
                     THEN NoTask ELSE active[d]]

\* _start_date_task: a new task is submitted to the executor
_start_date_task(w, d) ==
    LET tasks == Append(w.tasks, [date |-> d, state |-> "queued", cancel |-> FALSE])
    IN  [active |-> [w.active EXCEPT ![d] = Len(tasks)], tasks |-> tasks]

\* _cancel_task: the cancel event is set, the task's end is awaited for at
\* most 5 s and the date leaves active_tasks whether or not the task ended.
\* quick: the dates whose running task ends within the wait
_cancel_task(w, d, quick) ==
    LET t == w.active[d]
        ended == w.tasks[t].state = "running" /\ d \in quick
    IN  [active |-> [w.active EXCEPT ![d] = NoTask],
         tasks  |-> [w.tasks EXCEPT ![t] = [@ EXCEPT !.cancel = TRUE,
                                               !.state = IF ended THEN "done" ELSE @]]]

\* lines 223-239: the loop of _poll_once over target_dates, from date d on
RECURSIVE PollDates(_, _, _, _, _)
PollDates(w, d, target_dates, max_dates, quick) ==
    IF d > NumDates THEN w
    ELSE IF d \notin target_dates \/ w.active[d] # NoTask
    THEN PollDates(w, d + 1, target_dates, max_dates, quick)
    ELSE IF Cardinality(ActiveDates(w.active)) < max_dates
    THEN PollDates(_start_date_task(w, d), d + 1, target_dates, max_dates, quick)
    ELSE LET worst_date == _get_lowest_priority_date(w.active)
         IN  IF _priority_value(d) < _priority_value(worst_date)
             THEN LET c == _cancel_task(w, worst_date, quick)
                  IN  PollDates(_start_date_task(c, d), d + 1, target_dates, max_dates, quick)
             ELSE PollDates(w, d + 1, target_dates, max_dates, quick)

\* _poll_once with a non-empty selection of dates (lines 199-240)
WatcherPollOnce(target_dates, quick) ==
    /\ target_dates # {}
    /\ LET w0 == [active |-> _cleanup_finished_tasks(wActive, wTasks), tasks |-> wTasks]
           w1 == PollDates(w0, 1, target_dates, wMaxDates, quick)
       IN  /\ Len(w1.tasks) <= MaxTasks
           /\ wActive' = w1.active
           /\ wTasks' = w1.tasks
    /\ UNCHANGED wMaxDates

\* tasks a pool thread is executing
ExecutingTasks == {t \in 1..Len(wTasks) : wTasks[t].state = "running"}

\* a free thread of the executor takes the oldest queued task: _process_date
\* begins
WatcherTaskBegin(t) ==
    /\ t \in 1..Len(wTasks)
    /\ wTasks[t].state = "queued"
    /\ \A u \in 1..(t - 1) : wTasks[u].state # "queued"
    /\ Cardinality(ExecutingTasks) < wMaxDates
    /\ wTasks' = [wTasks EXCEPT ![t].state = "running"]
    /\ UNCHANGED <<wMaxDates, wActive>>

\* _process_date returns: the batch settled, or it saw its cancel event at a
\* loop check of _run_batch (lines 303-306, 331-334)
WatcherTaskEnd(t) ==
    /\ t \in 1..Len(wTasks)
    /\ wTasks[t].state = "running"
    /\ wTasks' = [wTasks EXCEPT ![t].state = "done"]
    /\ UNCHANGED <<wMaxDates, wActive>>

\* ---- _run_batch (lines 295-360): one date task working through its dramas

DramaNames == 1..NumDramas

\* cached_info is None, or holds one snapshot
None == <<>>

NoDrama == 0

DramaResults == {"True", "False", "raised"}

\* lines 302-330: the loop condition, the cancel check, the snapshot (the
\* cached one or a fetched one), pending, and the idle-round accounting or
\* the choice of one pending drama
RunBatchLoopCheck(fetched, drama_name) ==
    /\ rbpc = "loop"
    /\ IF rbStop \/ rbCancel
       THEN /\ rbpc' = "ended"
            /\ UNCHANGED <<rbCached, rbIdle, rbDrama>>
       ELSE LET current_info == IF rbCached # None THEN rbCached[1] ELSE fetched
                pending == current_info \ rbProcessed
            IN  /\ rbCached' = None
                /\ IF pending = {}
                   THEN /\ rbIdle' = rbIdle + 1
                        /\ rbpc' = IF rbIdle + 1 >= rbSettle THEN "ended" ELSE "sleep"
                        /\ rbDrama' = NoDrama
                   ELSE /\ rbIdle' = 0
                        /\ drama_name \in pending
                        /\ rbDrama' = drama_name
                        /\ rbpc' = "picked"
    /\ UNCHANGED <<rbSettle, rbProcessed, rbHanded, rbStop, rbCancel>>

\* line 324: _sleep_with_cancel returns and the loop continues
RunBatchSleepEnd ==
    /\ rbpc = "sleep"
    /\ rbpc' = "loop"
    /\ UNCHANGED <<rbSettle, rbCached, rbProcessed, rbIdle, rbDrama, rbHanded, rbStop, rbCancel>>

\* a variant that leaves the name out of processed when the call has failed
RunBatchDrama_retry_failed(latest_snapshot, result) ==
    /\ rbpc = "picked"
    /\ IF rbStop \/ rbCancel
       THEN /\ rbpc' = "ended"
            /\ UNCHANGED <<rbProcessed, rbHanded>>
       ELSE IF rbDrama \notin latest_snapshot
       THEN /\ rbProcessed' = rbProcessed \cup {rbDrama}
            /\ rbpc' = "loop"
            /\ UNCHANGED rbHanded
       ELSE /\ rbHanded[rbDrama] < MaxHandOffs
            /\ rbHanded' = [rbHanded EXCEPT ![rbDrama] = @ + 1]
            /\ rbProcessed' = IF result = "True" THEN rbProcessed \cup {rbDrama} ELSE rbProcessed
            /\ rbpc' = "loop"
    /\ rbCached' = None
    /\ rbDrama' = NoDrama
    /\ UNCHANGED <<rbSettle, rbIdle, rbStop, rbCancel>>

\* lines 331-358: the checks after the choice, the second snapshot, and the
\* call of _process_single_drama with its finally block; the check of
\* self._stop at line 357 is the loop condition of the next iteration
RunBatchDrama(latest_snapshot, result) ==
    /\ rbpc = "picked"
    /\ IF rbStop \/ rbCancel
       THEN /\ rbpc' = "ended"
            /\ UNCHANGED <<rbProcessed, rbHanded>>
       ELSE IF rbDrama \notin latest_snapshot
       THEN /\ rbProcessed' = rbProcessed \cup {rbDrama}
            /\ rbpc' = "loop"
            /\ UNCHANGED rbHanded
       ELSE /\ rbHanded[rbDrama] < MaxHandOffs
            /\ rbHanded' = [rbHanded EXCEPT ![rbDrama] = @ + 1]
            /\ rbProcessed' = rbProcessed \cup {rbDrama}
            /\ rbpc' = "loop"
    /\ rbCached' = None
    /\ rbDrama' = NoDrama
    /\ UNCHANGED <<rbSettle, rbIdle, rbStop, rbCancel>>

\* stop() (lines 86-91) sets self._stop
WatcherStop ==
    /\ rbpc # "ended"
    /\ ~rbStop
    /\ rbStop' = TRUE
    /\ UNCHANGED <<rbSettle, rbCached, rbProcessed, rbIdle, rbDrama, rbHanded, rbCancel, rbpc>>

\* _cancel_task sets the task's cancel_event
CancelEventSet ==
    /\ rbpc # "ended"
    /\ ~rbCancel
    /\ rbCancel' = TRUE
    /\ UNCHANGED <<rbSettle, rbCached, rbProcessed, rbIdle, rbDrama, rbHanded, rbStop, rbpc>>

----------------------------------------------------------------------------
\* cli/commands.py feishu_run with utils/date_deduplication.py: the per-date
\* records of processed dramas

\* the label that info.get('date', ...) falls back to for a row without a date
UnknownDate == 0

\* the dates of the table's date field
DedupDates == 1..NumDates

\* the date field of each drama's row: two dramas share date 1, the last
\* drama has no date
DramaDate ==
    [n \in DramaNames |-> IF n = NumDramas THEN UnknownDate
                          ELSE IF n <= 2 THEN 1 ELSE 2]

\* filter_new_dramas: the names not recorded under their date; names without
\* a date are never filtered
filter_new_dramas(file, drama_info, force_reprocess) ==
    IF force_reprocess THEN drama_info
    ELSE {n \in drama_info : DramaDate[n] = UnknownDate \/ n \notin file[DramaDate[n]]}

\* mark_dramas_as_processed with save_processed_dramas: per date, the names
\* of the results with completed > 0 are added to the date's record
mark_dramas_as_processed(file, drama_results) ==
    [d \in DedupDates |->
        file[d] \cup {r.name : r \in {x \in drama_results : x.date = d /\ x.completed > 0}}]

\* lines 1026-1035: one result per drama of drama_info, its 'completed' taken
\* from the run's total_done
drama_results(drama_info, completed, total_done) ==
    {[name |-> n, date |-> DramaDate[n],
      completed |-> IF total_done > 0 THEN 1 ELSE 0] : n \in drama_info}

\* lines 846-886: the pending dramas are fetched and filtered, and the run is
\* confirmed
FeishuRunFetch(pending, skip_processed, force_reprocess) ==
    /\ ddpc = "idle"
    /\ ddRuns < MaxRuns
    /\ LET drama_info == IF skip_processed /\ ~force_reprocess
                         THEN filter_new_dramas(ddFile, pending, force_reprocess)
                         ELSE pending
       IN  /\ drama_info # {}
           /\ ddInfo' = drama_info
    /\ ddMarking' = (skip_processed /\ ~force_reprocess)
    /\ ddRuns' = ddRuns + 1
    /\ ddpc' = "processing"
    /\ UNCHANGED <<ddFile, ddEver>>

\* lines 1013-1040: process_all_dramas returns and the records are written.
\* completed: the dramas of the run with a completed material of their own
FeishuRunProcess(completed) ==
    /\ ddpc = "processing"
    /\ completed \subseteq ddInfo
    /\ LET total_done == Cardinality(completed)
       IN  ddFile' = IF ddMarking
                     THEN mark_dramas_as_processed(ddFile, drama_results(ddInfo, completed, total_done))
                     ELSE ddFile
    /\ ddEver' = ddEver \cup completed
    /\ ddInfo' = {}
    /\ ddpc' = "idle"
    /\ UNCHANGED <<ddMarking, ddRuns>>

----------------------------------------------------------------------------
\* Initial states and specifications

InitPlanner ==
    /\ useDate \in BOOLEAN
    /\ exportDirs \in InitialExports(useDate)
    /\ prevDirs = exportDirs
    /\ plan = NoPlan
    /\ pcPlan = "idle"
    /\ runs = 0
    /\ episodes = <<>> /\ startEp = 0 /\ startOff = 0 /\ minSec = 0 /\ maxSec = 0
    /\ segs = <<>> /\ usedStart = <<0, 0>> /\ sbSegs = <<>>
    /\ pcSeg = "built" /\ pcSb = "built"
    /\ tailExists = FALSE /\ refresh = FALSE
    /\ inodes = [i \in InodeIds |-> EmptyInode]
    /\ tmpPath = NoFile /\ cachePath = NoFile
    /\ wpc = [w \in Workers |-> "idle"] /\ wret = [w \in Workers |-> "-"]
    /\ wfd = [w \in Workers |-> NoFile] /\ wcall = [w \in Workers |-> NewCall]
    /\ observed = [w \in Workers |-> "none"]
    /\ lastDone = NoCall /\ calls = 0 /\ epoch = 0
    /\ jpc = "idle" /\ keepTemp = FALSE /\ useHw = FALSE /\ workdir = FALSE
    /\ nSegs = 0 /\ segIdx = 0 /\ encLog = <<>> /\ finalSrc = "-" /\ outWritten = FALSE
    /\ jobResult = "-" /\ raisedAt = "-" /\ tailRet = "-" /\ tailRenders = 0
    /\ cacheAtCall = NoFile /\ jobsRun = 0
    /\ cfile = <<>> /\ cused = [p \in CutRuns |-> <<>>] /\ cinit = [p \in CutRuns |-> 0]
    /\ cstart = [p \in CutRuns |-> <<>>] /\ cdisp = [p \in CutRuns |-> <<>>]
    /\ cplan = [p \in CutRuns |-> NoCutPlan] /\ cpc = [p \in CutRuns |-> "idle"]
    /\ dedup = FALSE /\ randomStart = FALSE /\ sceneDetect = FALSE /\ rounds = 0
    /\ bpc = "finished" /\ bSeries = 0 /\ jobsLimit = 1
    /\ bTasks = [s \in SeriesIds |-> <<>>] /\ bOutcome = [s \in SeriesIds |-> "pending"]
    /\ bProduced = [s \in SeriesIds |-> {}] /\ bCompleted = [s \in SeriesIds |-> 0]
    /\ totalDone = 0
    /\ sfiles = [s \in SeriesIds |-> <<>>] /\ sfileOrigin = [s \in SeriesIds |-> <<>>]
    /\ sused = <<>> /\ sorigin = <<>> /\ sinit = 0 /\ sstart = <<>> /\ smat = 0
    /\ sactual = <<>> /\ scompleted = 0 /\ sskipped = FALSE /\ sAccess = {}
    /\ scur = 0 /\ spc = "finished"
    /\ wMaxDates = 1 /\ wActive = [d \in Dates |-> 0] /\ wTasks = <<>>
    /\ rbSettle = 1 /\ rbCached = None /\ rbProcessed = {} /\ rbIdle = 0 /\ rbDrama = NoDrama
    /\ rbHanded = [n \in DramaNames |-> 0] /\ rbStop = FALSE /\ rbCancel = FALSE /\ rbpc = "ended"
    /\ ddFile = [d \in DedupDates |-> {}] /\ ddInfo = {} /\ ddMarking = FALSE
    /\ ddEver = {} /\ ddRuns = 0 /\ ddpc = "idle"

InitSegments ==
    /\ episodes \in EpisodeLists
    /\ startEp \in 0..(Len(episodes) - 1)
    /\ startOff \in OffsetValues
    /\ \E w \in DurationWindows : minSec = w[1] /\ maxSec = w[2]
    /\ segs = <<>>
    /\ usedStart = <<startEp, startOff>>
    /\ sbSegs = <<>>
    /\ pcSeg = "input"
    /\ pcSb = "input"
    /\ useDate = FALSE /\ exportDirs = [d \in {} |-> {}] /\ prevDirs = exportDirs
    /\ plan = NoPlan /\ pcPlan = "idle" /\ runs = 0
    /\ tailExists = FALSE /\ refresh = FALSE
    /\ inodes = [i \in InodeIds |-> EmptyInode]
    /\ tmpPath = NoFile /\ cachePath = NoFile
    /\ wpc = [w \in Workers |-> "idle"] /\ wret = [w \in Workers |-> "-"]
    /\ wfd = [w \in Workers |-> NoFile] /\ wcall = [w \in Workers |-> NewCall]
    /\ observed = [w \in Workers |-> "none"]
    /\ lastDone = NoCall /\ calls = 0 /\ epoch = 0
    /\ jpc = "idle" /\ keepTemp = FALSE /\ useHw = FALSE /\ workdir = FALSE
    /\ nSegs = 0 /\ segIdx = 0 /\ encLog = <<>> /\ finalSrc = "-" /\ outWritten = FALSE
    /\ jobResult = "-" /\ raisedAt = "-" /\ tailRet = "-" /\ tailRenders = 0
    /\ cacheAtCall = NoFile /\ jobsRun = 0
    /\ cfile = <<>> /\ cused = [p \in CutRuns |-> <<>>] /\ cinit = [p \in CutRuns |-> 0]
    /\ cstart = [p \in CutRuns |-> <<>>] /\ cdisp = [p \in CutRuns |-> <<>>]
    /\ cplan = [p \in CutRuns |-> NoCutPlan] /\ cpc = [p \in CutRuns |-> "idle"]
    /\ dedup = FALSE /\ randomStart = FALSE /\ sceneDetect = FALSE /\ rounds = 0
    /\ bpc = "finished" /\ bSeries = 0 /\ jobsLimit = 1
    /\ bTasks = [s \in SeriesIds |-> <<>>] /\ bOutcome = [s \in SeriesIds |-> "pending"]
    /\ bProduced = [s \in SeriesIds |-> {}] /\ bCompleted = [s \in SeriesIds |-> 0]
    /\ totalDone = 0
    /\ sfiles = [s \in SeriesIds |-> <<>>] /\ sfileOrigin = [s \in SeriesIds |-> <<>>]
    /\ sused = <<>> /\ sorigin = <<>> /\ sinit = 0 /\ sstart = <<>> /\ smat = 0
    /\ sactual = <<>> /\ scompleted = 0 /\ sskipped = FALSE /\ sAccess = {}
    /\ scur = 0 /\ spc = "finished"
    /\ wMaxDates = 1 /\ wActive = [d \in Dates |-> 0] /\ wTasks = <<>>
    /\ rbSettle = 1 /\ rbCached = None /\ rbProcessed = {} /\ rbIdle = 0 /\ rbDrama = NoDrama
    /\ rbHanded = [n \in DramaNames |-> 0] /\ rbStop = FALSE /\ rbCancel = FALSE /\ rbpc = "ended"
    /\ ddFile = [d \in DedupDates |-> {}] /\ ddInfo = {} /\ ddMarking = FALSE
    /\ ddEver = {} /\ ddRuns = 0 /\ ddpc = "idle"

\* a cold cache directory
InitOutro ==
    /\ tailExists \in BOOLEAN
    /\ refresh \in BOOLEAN
    /\ inodes = [i \in InodeIds |-> EmptyInode]
    /\ tmpPath = NoFile /\ cachePath = NoFile
    /\ wpc = [w \in Workers |-> "idle"] /\ wret = [w \in Workers |-> "-"]
    /\ wfd = [w \in Workers |-> NoFile] /\ wcall = [w \in Workers |-> NewCall]
    /\ observed = [w \in Workers |-> "none"]
    /\ lastDone = NoCall /\ calls = 0 /\ epoch = 0
    /\ useDate = FALSE /\ exportDirs = [d \in {} |-> {}] /\ prevDirs = exportDirs
    /\ plan = NoPlan /\ pcPlan = "idle" /\ runs = 0
    /\ episodes = <<>> /\ startEp = 0 /\ startOff = 0 /\ minSec = 0 /\ maxSec = 0
    /\ segs = <<>> /\ usedStart = <<0, 0>> /\ sbSegs = <<>>
    /\ pcSeg = "built" /\ pcSb = "built"
    /\ jpc = "idle" /\ keepTemp = FALSE /\ useHw = FALSE /\ workdir = FALSE
    /\ nSegs = 0 /\ segIdx = 0 /\ encLog = <<>> /\ finalSrc = "-" /\ outWritten = FALSE
    /\ jobResult = "-" /\ raisedAt = "-" /\ tailRet = "-" /\ tailRenders = 0
    /\ cacheAtCall = NoFile /\ jobsRun = 0
    /\ cfile = <<>> /\ cused = [p \in CutRuns |-> <<>>] /\ cinit = [p \in CutRuns |-> 0]
    /\ cstart = [p \in CutRuns |-> <<>>] /\ cdisp = [p \in CutRuns |-> <<>>]
    /\ cplan = [p \in CutRuns |-> NoCutPlan] /\ cpc = [p \in CutRuns |-> "idle"]
    /\ dedup = FALSE /\ randomStart = FALSE /\ sceneDetect = FALSE /\ rounds = 0
    /\ bpc = "finished" /\ bSeries = 0 /\ jobsLimit = 1
    /\ bTasks = [s \in SeriesIds |-> <<>>] /\ bOutcome = [s \in SeriesIds |-> "pending"]
    /\ bProduced = [s \in SeriesIds |-> {}] /\ bCompleted = [s \in SeriesIds |-> 0]
    /\ totalDone = 0
    /\ sfiles = [s \in SeriesIds |-> <<>>] /\ sfileOrigin = [s \in SeriesIds |-> <<>>]
    /\ sused = <<>> /\ sorigin = <<>> /\ sinit = 0 /\ sstart = <<>> /\ smat = 0
    /\ sactual = <<>> /\ scompleted = 0 /\ sskipped = FALSE /\ sAccess = {}
    /\ scur = 0 /\ spc = "finished"
    /\ wMaxDates = 1 /\ wActive = [d \in Dates |-> 0] /\ wTasks = <<>>
    /\ rbSettle = 1 /\ rbCached = None /\ rbProcessed = {} /\ rbIdle = 0 /\ rbDrama = NoDrama
    /\ rbHanded = [n \in DramaNames |-> 0] /\ rbStop = FALSE /\ rbCancel = FALSE /\ rbpc = "ended"
    /\ ddFile = [d \in DedupDates |-> {}] /\ ddInfo = {} /\ ddMarking = FALSE
    /\ ddEver = {} /\ ddRuns = 0 /\ ddpc = "idle"

NextPlanner ==
    \/ (\E fresh \in BOOLEAN, count \in 1..MaxCount : PrepareOutputDir(fresh, count))
         /\ UNCHANGED <<segVars, outroVars, jobVars, cutVars, batchVars, storeVars, watchVars, runVars, dedupVars>>
    \/ ProcessMaterials /\ UNCHANGED <<segVars, outroVars, jobVars, cutVars, batchVars, storeVars, watchVars, runVars, dedupVars>>

SpecPlanner == InitPlanner /\ [][NextPlanner]_vars

NextSegments ==
    \/ BuildSegments /\ UNCHANGED <<planVars, outroVars, jobVars, cutVars, batchVars, storeVars, watchVars, runVars, dedupVars>>
    \/ SegmentBuilderBuild /\ UNCHANGED <<planVars, outroVars, jobVars, cutVars, batchVars, storeVars, watchVars, runVars, dedupVars>>

SpecSegments == InitSegments /\ [][NextSegments]_vars

NextOutro ==
    \/ (\E w \in Workers : CallGetOrBuild(w)) /\ UNCHANGED <<planVars, segVars, jobVars, cutVars, batchVars, storeVars, watchVars, runVars, dedupVars>>
    \/ (\E w \in Workers : RenderOpen(w)) /\ UNCHANGED <<planVars, segVars, jobVars, cutVars, batchVars, storeVars, watchVars, runVars, dedupVars>>
    \/ (\E w \in Workers : RenderFailEarly(w)) /\ UNCHANGED <<planVars, segVars, jobVars, cutVars, batchVars, storeVars, watchVars, runVars, dedupVars>>
    \/ (\E w \in Workers, ok \in BOOLEAN : RenderExit(w, ok)) /\ UNCHANGED <<planVars, segVars, jobVars, cutVars, batchVars, storeVars, watchVars, runVars, dedupVars>>
    \/ (\E w \in Workers : ReplaceIntoCache(w)) /\ UNCHANGED <<planVars, segVars, jobVars, cutVars, batchVars, storeVars, watchVars, runVars, dedupVars>>
    \/ (\E w \in Workers : CleanupAfterFailure(w)) /\ UNCHANGED <<planVars, segVars, jobVars, cutVars, batchVars, storeVars, watchVars, runVars, dedupVars>>
    \/ (\E w \in Workers : UseTail(w)) /\ UNCHANGED <<planVars, segVars, jobVars, cutVars, batchVars, storeVars, watchVars, runVars, dedupVars>>
    \/ (\E r \in BOOLEAN : ProcessRestart(r)) /\ UNCHANGED <<planVars, segVars, jobVars, cutVars, batchVars, storeVars, watchVars, runVars, dedupVars>>

SpecOutro == InitOutro /\ [][NextOutro]_vars

\* a job runs in a process whose tail cache is cold
InitJob ==
    /\ keepTemp \in BOOLEAN
    /\ useHw \in BOOLEAN
    /\ tailExists \in BOOLEAN
    /\ refresh \in BOOLEAN
    /\ jpc = "idle" /\ workdir = FALSE
    /\ nSegs = 0 /\ segIdx = 0 /\ encLog = <<>> /\ finalSrc = "-" /\ outWritten = FALSE
    /\ jobResult = "-" /\ raisedAt = "-" /\ tailRet = "-" /\ tailRenders = 0
    /\ cacheAtCall = NoFile /\ jobsRun = 0
    /\ inodes = [i \in InodeIds |-> EmptyInode]
    /\ tmpPath = NoFile /\ cachePath = NoFile
    /\ wpc = [w \in Workers |-> "idle"] /\ wret = [w \in Workers |-> "-"]
    /\ wfd = [w \in Workers |-> NoFile] /\ wcall = [w \in Workers |-> NewCall]
    /\ observed = [w \in Workers |-> "none"]
    /\ lastDone = NoCall /\ calls = 0 /\ epoch = 0
    /\ useDate = FALSE /\ exportDirs = [d \in {} |-> {}] /\ prevDirs = exportDirs
    /\ plan = NoPlan /\ pcPlan = "idle" /\ runs = 0
    /\ episodes = <<>> /\ startEp = 0 /\ startOff = 0 /\ minSec = 0 /\ maxSec = 0
    /\ segs = <<>> /\ usedStart = <<0, 0>> /\ sbSegs = <<>>
    /\ pcSeg = "built" /\ pcSb = "built"
    /\ cfile = <<>> /\ cused = [p \in CutRuns |-> <<>>] /\ cinit = [p \in CutRuns |-> 0]
    /\ cstart = [p \in CutRuns |-> <<>>] /\ cdisp = [p \in CutRuns |-> <<>>]
    /\ cplan = [p \in CutRuns |-> NoCutPlan] /\ cpc = [p \in CutRuns |-> "idle"]
    /\ dedup = FALSE /\ randomStart = FALSE /\ sceneDetect = FALSE /\ rounds = 0
    /\ bpc = "finished" /\ bSeries = 0 /\ jobsLimit = 1
    /\ bTasks = [s \in SeriesIds |-> <<>>] /\ bOutcome = [s \in SeriesIds |-> "pending"]
    /\ bProduced = [s \in SeriesIds |-> {}] /\ bCompleted = [s \in SeriesIds |-> 0]
    /\ totalDone = 0
    /\ sfiles = [s \in SeriesIds |-> <<>>] /\ sfileOrigin = [s \in SeriesIds |-> <<>>]
    /\ sused = <<>> /\ sorigin = <<>> /\ sinit = 0 /\ sstart = <<>> /\ smat = 0
    /\ sactual = <<>> /\ scompleted = 0 /\ sskipped = FALSE /\ sAccess = {}
    /\ scur = 0 /\ spc = "finished"
    /\ wMaxDates = 1 /\ wActive = [d \in Dates |-> 0] /\ wTasks = <<>>
    /\ rbSettle = 1 /\ rbCached = None /\ rbProcessed = {} /\ rbIdle = 0 /\ rbDrama = NoDrama
    /\ rbHanded = [n \in DramaNames |-> 0] /\ rbStop = FALSE /\ rbCancel = FALSE /\ rbpc = "ended"
    /\ ddFile = [d \in DedupDates |-> {}] /\ ddInfo = {} /\ ddMarking = FALSE
    /\ ddEver = {} /\ ddRuns = 0 /\ ddpc = "idle"

NextJob ==
    \/ JobStart /\ UNCHANGED <<planVars, segVars, cutVars, batchVars, storeVars, watchVars, runVars, dedupVars>>
    \/ (\E beh \in ProcBehaviours, n \in 0..MaxSegments : JobBuildSegments(beh, n))
         /\ UNCHANGED <<planVars, segVars, cutVars, batchVars, storeVars, watchVars, runVars, dedupVars>>
    \/ (\E behHw \in ProcBehaviours, behSw \in ProcBehaviours : JobEncodeSegment(behHw, behSw))
         /\ UNCHANGED <<planVars, segVars, cutVars, batchVars, storeVars, watchVars, runVars, dedupVars>>
    \/ (\E beh \in ProcBehaviours : JobConcatMain(beh)) /\ UNCHANGED <<planVars, segVars, cutVars, batchVars, storeVars, watchVars, runVars, dedupVars>>
    \/ JobSkipTail /\ UNCHANGED <<planVars, segVars, cutVars, batchVars, storeVars, watchVars, runVars, dedupVars>>
    \/ JobCallTail /\ UNCHANGED <<planVars, segVars, cutVars, batchVars, storeVars, watchVars, runVars, dedupVars>>
    \/ (jpc = "tail_call" /\ RenderOpen(JobWorker)) /\ UNCHANGED <<planVars, segVars, jobVars, cutVars, batchVars, storeVars, watchVars, runVars, dedupVars>>
    \/ (jpc = "tail_call" /\ RenderFailEarly(JobWorker))
         /\ UNCHANGED <<planVars, segVars, jobVars, cutVars, batchVars, storeVars, watchVars, runVars, dedupVars>>
    \/ (jpc = "tail_call" /\ \E ok \in BOOLEAN : RenderExit(JobWorker, ok))
         /\ UNCHANGED <<planVars, segVars, jobVars, cutVars, batchVars, storeVars, watchVars, runVars, dedupVars>>
    \/ (jpc = "tail_call" /\ ReplaceIntoCache(JobWorker))
         /\ UNCHANGED <<planVars, segVars, jobVars, cutVars, batchVars, storeVars, watchVars, runVars, dedupVars>>
    \/ (jpc = "tail_call" /\ CleanupAfterFailure(JobWorker))
         /\ UNCHANGED <<planVars, segVars, jobVars, cutVars, batchVars, storeVars, watchVars, runVars, dedupVars>>
    \/ (\E beh \in ProcBehaviours : JobTailReturn(beh)) /\ UNCHANGED <<planVars, segVars, cutVars, batchVars, storeVars, watchVars, runVars, dedupVars>>
    \/ (\E beh \in ProcBehaviours, behProbe \in ProcBehaviours : JobRemux(beh, behProbe))
         /\ UNCHANGED <<planVars, segVars, cutVars, batchVars, storeVars, watchVars, runVars, dedupVars>>
    \/ JobFinally /\ UNCHANGED <<planVars, segVars, cutVars, batchVars, storeVars, watchVars, runVars, dedupVars>>

SpecJob == InitJob /\ [][NextJob]_vars

InitCutPoints ==
    /\ cfile \in InitialHistories
    /\ dedup \in BOOLEAN
    /\ randomStart \in BOOLEAN
    /\ sceneDetect \in BOOLEAN
    /\ cused = [p \in CutRuns |-> <<>>] /\ cinit = [p \in CutRuns |-> 0]
    /\ cstart = [p \in CutRuns |-> <<>>] /\ cdisp = [p \in CutRuns |-> <<>>]
    /\ cplan = [p \in CutRuns |-> NoCutPlan] /\ cpc = [p \in CutRuns |-> "idle"]
    /\ rounds = 0
    /\ useDate = FALSE /\ exportDirs = [d \in {} |-> {}] /\ prevDirs = exportDirs
    /\ plan = NoPlan /\ pcPlan = "idle" /\ runs = 0
    /\ episodes = <<>> /\ startEp = 0 /\ startOff = 0 /\ minSec = 0 /\ maxSec = 0
    /\ segs = <<>> /\ usedStart = <<0, 0>> /\ sbSegs = <<>>
    /\ pcSeg = "built" /\ pcSb = "built"
    /\ tailExists = FALSE /\ refresh = FALSE
    /\ inodes = [i \in InodeIds |-> EmptyInode]
    /\ tmpPath = NoFile /\ cachePath = NoFile
    /\ wpc = [w \in Workers |-> "idle"] /\ wret = [w \in Workers |-> "-"]
    /\ wfd = [w \in Workers |-> NoFile] /\ wcall = [w \in Workers |-> NewCall]
    /\ observed = [w \in Workers |-> "none"]
    /\ lastDone = NoCall /\ calls = 0 /\ epoch = 0
    /\ jpc = "idle" /\ keepTemp = FALSE /\ useHw = FALSE /\ workdir = FALSE
    /\ nSegs = 0 /\ segIdx = 0 /\ encLog = <<>> /\ finalSrc = "-" /\ outWritten = FALSE
    /\ jobResult = "-" /\ raisedAt = "-" /\ tailRet = "-" /\ tailRenders = 0
    /\ cacheAtCall = NoFile /\ jobsRun = 0
    /\ bpc = "finished" /\ bSeries = 0 /\ jobsLimit = 1
    /\ bTasks = [s \in SeriesIds |-> <<>>] /\ bOutcome = [s \in SeriesIds |-> "pending"]
    /\ bProduced = [s \in SeriesIds |-> {}] /\ bCompleted = [s \in SeriesIds |-> 0]
    /\ totalDone = 0
    /\ sfiles = [s \in SeriesIds |-> <<>>] /\ sfileOrigin = [s \in SeriesIds |-> <<>>]
    /\ sused = <<>> /\ sorigin = <<>> /\ sinit = 0 /\ sstart = <<>> /\ smat = 0
    /\ sactual = <<>> /\ scompleted = 0 /\ sskipped = FALSE /\ sAccess = {}
    /\ scur = 0 /\ spc = "finished"
    /\ wMaxDates = 1 /\ wActive = [d \in Dates |-> 0] /\ wTasks = <<>>
    /\ rbSettle = 1 /\ rbCached = None /\ rbProcessed = {} /\ rbIdle = 0 /\ rbDrama = NoDrama
    /\ rbHanded = [n \in DramaNames |-> 0] /\ rbStop = FALSE /\ rbCancel = FALSE /\ rbpc = "ended"
    /\ ddFile = [d \in DedupDates |-> {}] /\ ddInfo = {} /\ ddMarking = FALSE
    /\ ddEver = {} /\ ddRuns = 0 /\ ddpc = "idle"

\* one run of the tool at a time, every input
NextStartPoints ==
    \/ (\E p \in SingleRun, readable \in BOOLEAN : CutLoad(p, readable))
         /\ UNCHANGED <<planVars, segVars, outroVars, jobVars, batchVars, storeVars, watchVars, runVars, dedupVars>>
    \/ (\E p \in SingleRun, count \in 1..MaxCount, start_index \in 1..2,
           draws \in DrawSeqs, optimal \in OptimalSeqs :
             CutGenerateAndDispatch(p, count, start_index, draws, optimal))
         /\ UNCHANGED <<planVars, segVars, outroVars, jobVars, batchVars, storeVars, watchVars, runVars, dedupVars>>
    \/ (\E p \in SingleRun, completed_count \in 0..MaxCount : CutSave(p, completed_count))
         /\ UNCHANGED <<planVars, segVars, outroVars, jobVars, batchVars, storeVars, watchVars, runVars, dedupVars>>

SpecStartPoints == InitCutPoints /\ [][NextStartPoints]_vars

\* runs of the tool that overlap in time, each asked for one material
NextCutPoints ==
    \/ (\E p \in CutRuns, readable \in BOOLEAN : CutLoad(p, readable))
         /\ UNCHANGED <<planVars, segVars, outroVars, jobVars, batchVars, storeVars, watchVars, runVars, dedupVars>>
    \/ (\E p \in CutRuns, draws \in [1..1 -> CandidatePoints], optimal \in OptimalSeqs :
             CutGenerateAndDispatch(p, 1, 1, draws, optimal))
         /\ UNCHANGED <<planVars, segVars, outroVars, jobVars, batchVars, storeVars, watchVars, runVars, dedupVars>>
    \/ (\E p \in CutRuns, completed_count \in 0..1 : CutSave(p, completed_count))
         /\ UNCHANGED <<planVars, segVars, outroVars, jobVars, batchVars, storeVars, watchVars, runVars, dedupVars>>

SpecCutPoints == InitCutPoints /\ [][NextCutPoints]_vars

InitBatch ==
    /\ jobsLimit \in 0..MaxConcurrency
    /\ bpc = "series" /\ bSeries = 1
    /\ bTasks = [s \in SeriesIds |-> <<>>] /\ bOutcome = [s \in SeriesIds |-> "pending"]
    /\ bProduced = [s \in SeriesIds |-> {}] /\ bCompleted = [s \in SeriesIds |-> 0]
    /\ totalDone = 0
    /\ useDate = FALSE /\ exportDirs = [d \in {} |-> {}] /\ prevDirs = exportDirs
    /\ plan = NoPlan /\ pcPlan = "idle" /\ runs = 0
    /\ episodes = <<>> /\ startEp = 0 /\ startOff = 0 /\ minSec = 0 /\ maxSec = 0
    /\ segs = <<>> /\ usedStart = <<0, 0>> /\ sbSegs = <<>>
    /\ pcSeg = "built" /\ pcSb = "built"
    /\ tailExists = FALSE /\ refresh = FALSE
    /\ inodes = [i \in InodeIds |-> EmptyInode]
    /\ tmpPath = NoFile /\ cachePath = NoFile
    /\ wpc = [w \in Workers |-> "idle"] /\ wret = [w \in Workers |-> "-"]
    /\ wfd = [w \in Workers |-> NoFile] /\ wcall = [w \in Workers |-> NewCall]
    /\ observed = [w \in Workers |-> "none"]
    /\ lastDone = NoCall /\ calls = 0 /\ epoch = 0
    /\ jpc = "idle" /\ keepTemp = FALSE /\ useHw = FALSE /\ workdir = FALSE
    /\ nSegs = 0 /\ segIdx = 0 /\ encLog = <<>> /\ finalSrc = "-" /\ outWritten = FALSE
    /\ jobResult = "-" /\ raisedAt = "-" /\ tailRet = "-" /\ tailRenders = 0
    /\ cacheAtCall = NoFile /\ jobsRun = 0
    /\ cfile = <<>> /\ cused = [p \in CutRuns |-> <<>>] /\ cinit = [p \in CutRuns |-> 0]
    /\ cstart = [p \in CutRuns |-> <<>>] /\ cdisp = [p \in CutRuns |-> <<>>]
    /\ cplan = [p \in CutRuns |-> NoCutPlan] /\ cpc = [p \in CutRuns |-> "idle"]
    /\ dedup = FALSE /\ randomStart = FALSE /\ sceneDetect = FALSE /\ rounds = 0
    /\ sfiles = [s \in SeriesIds |-> <<>>] /\ sfileOrigin = [s \in SeriesIds |-> <<>>]
    /\ sused = <<>> /\ sorigin = <<>> /\ sinit = 0 /\ sstart = <<>> /\ smat = 0
    /\ sactual = <<>> /\ scompleted = 0 /\ sskipped = FALSE /\ sAccess = {}
    /\ scur = 0 /\ spc = "finished"
    /\ wMaxDates = 1 /\ wActive = [d \in Dates |-> 0] /\ wTasks = <<>>
    /\ rbSettle = 1 /\ rbCached = None /\ rbProcessed = {} /\ rbIdle = 0 /\ rbDrama = NoDrama
    /\ rbHanded = [n \in DramaNames |-> 0] /\ rbStop = FALSE /\ rbCancel = FALSE /\ rbpc = "ended"
    /\ ddFile = [d \in DedupDates |-> {}] /\ ddInfo = {} /\ ddMarking = FALSE
    /\ ddEver = {} /\ ddRuns = 0 /\ ddpc = "idle"

NextBatch ==
    \/ (\E outcome \in {"raise", "skip", "plan"}, n \in 0..MaxCount : BatchSeriesBegin(outcome, n))
         /\ UNCHANGED <<planVars, segVars, outroVars, jobVars, cutVars, storeVars, watchVars, runVars, dedupVars>>
    \/ (\E i \in 1..MaxCount : BatchTaskStart(i))
         /\ UNCHANGED <<planVars, segVars, outroVars, jobVars, cutVars, storeVars, watchVars, runVars, dedupVars>>
    \/ (\E i \in 1..MaxCount, result \in MaterialResults : BatchTaskEnd(i, result))
         /\ UNCHANGED <<planVars, segVars, outroVars, jobVars, cutVars, storeVars, watchVars, runVars, dedupVars>>
    \/ (\E i \in 1..MaxCount : BatchTaskBlocks(i))
         /\ UNCHANGED <<planVars, segVars, outroVars, jobVars, cutVars, storeVars, watchVars, runVars, dedupVars>>
    \/ (\E post_raises \in BOOLEAN : BatchSeriesEnd(post_raises))
         /\ UNCHANGED <<planVars, segVars, outroVars, jobVars, cutVars, storeVars, watchVars, runVars, dedupVars>>

SpecBatch == InitBatch /\ [][NextBatch]_vars

InitStore ==
    /\ bpc = "finished" /\ bSeries = 0 /\ jobsLimit = 1
    /\ bTasks = [s \in SeriesIds |-> <<>>] /\ bOutcome = [s \in SeriesIds |-> "pending"]
    /\ bProduced = [s \in SeriesIds |-> {}] /\ bCompleted = [s \in SeriesIds |-> 0]
    /\ totalDone = 0
    /\ useDate = FALSE /\ exportDirs = [d \in {} |-> {}] /\ prevDirs = exportDirs
    /\ plan = NoPlan /\ pcPlan = "idle" /\ runs = 0
    /\ episodes = <<>> /\ startEp = 0 /\ startOff = 0 /\ minSec = 0 /\ maxSec = 0
    /\ segs = <<>> /\ usedStart = <<0, 0>> /\ sbSegs = <<>>
    /\ pcSeg = "built" /\ pcSb = "built"
    /\ tailExists = FALSE /\ refresh = FALSE
    /\ inodes = [i \in InodeIds |-> EmptyInode]
    /\ tmpPath = NoFile /\ cachePath = NoFile
    /\ wpc = [w \in Workers |-> "idle"] /\ wret = [w \in Workers |-> "-"]
    /\ wfd = [w \in Workers |-> NoFile] /\ wcall = [w \in Workers |-> NewCall]
    /\ observed = [w \in Workers |-> "none"]
    /\ lastDone = NoCall /\ calls = 0 /\ epoch = 0
    /\ jpc = "idle" /\ keepTemp = FALSE /\ useHw = FALSE /\ workdir = FALSE
    /\ nSegs = 0 /\ segIdx = 0 /\ encLog = <<>> /\ finalSrc = "-" /\ outWritten = FALSE
    /\ jobResult = "-" /\ raisedAt = "-" /\ tailRet = "-" /\ tailRenders = 0
    /\ cacheAtCall = NoFile /\ jobsRun = 0
    /\ cfile = <<>> /\ cused = [p \in CutRuns |-> <<>>] /\ cinit = [p \in CutRuns |-> 0]
    /\ cstart = [p \in CutRuns |-> <<>>] /\ cdisp = [p \in CutRuns |-> <<>>]
    /\ cplan = [p \in CutRuns |-> NoCutPlan] /\ cpc = [p \in CutRuns |-> "idle"]
    /\ dedup \in BOOLEAN /\ randomStart \in BOOLEAN /\ sceneDetect \in BOOLEAN /\ rounds = 0
    /\ sfiles \in [SeriesIds -> StoredHistories]
    /\ sfileOrigin = [s \in SeriesIds |-> [i \in 1..Len(sfiles[s]) |-> s]]
    /\ sused = <<>> /\ sorigin = <<>> /\ sinit = 0 /\ sstart = <<>> /\ smat = 0
    /\ sactual = <<>> /\ scompleted = 0 /\ sskipped = FALSE /\ sAccess = {}
    /\ scur = 1 /\ spc = "idle"
    /\ wMaxDates = 1 /\ wActive = [d \in Dates |-> 0] /\ wTasks = <<>>
    /\ rbSettle = 1 /\ rbCached = None /\ rbProcessed = {} /\ rbIdle = 0 /\ rbDrama = NoDrama
    /\ rbHanded = [n \in DramaNames |-> 0] /\ rbStop = FALSE /\ rbCancel = FALSE /\ rbpc = "ended"
    /\ ddFile = [d \in DedupDates |-> {}] /\ ddInfo = {} /\ ddMarking = FALSE
    /\ ddEver = {} /\ ddRuns = 0 /\ ddpc = "idle"

\* the series of one batch handled in turn by one AIEnhancedProcessor
NextStore ==
    \/ (\E readable \in BOOLEAN : StoreSeriesLoad(readable))
         /\ UNCHANGED <<planVars, segVars, outroVars, jobVars, cutVars, batchVars, watchVars, runVars, dedupVars>>
    \/ (\E count \in StoreCounts, draws \in StoreDraws, optimal \in OptimalSeqs :
             StoreGenerate(count, draws, optimal))
         /\ UNCHANGED <<planVars, segVars, outroVars, jobVars, cutVars, batchVars, watchVars, runVars, dedupVars>>
    \/ (\E sorted_points \in MaterialCandidates, ok \in BOOLEAN :
             StoreMaterial(sorted_points, ok))
         /\ UNCHANGED <<planVars, segVars, outroVars, jobVars, cutVars, batchVars, watchVars, runVars, dedupVars>>
    \/ StoreSeriesSave
         /\ UNCHANGED <<planVars, segVars, outroVars, jobVars, cutVars, batchVars, watchVars, runVars, dedupVars>>

SpecStore == InitStore /\ [][NextStore]_vars

InitWatcher ==
    /\ bpc = "finished" /\ bSeries = 0 /\ jobsLimit = 1
    /\ bTasks = [s \in SeriesIds |-> <<>>] /\ bOutcome = [s \in SeriesIds |-> "pending"]
    /\ bProduced = [s \in SeriesIds |-> {}] /\ bCompleted = [s \in SeriesIds |-> 0]
    /\ totalDone = 0
    /\ useDate = FALSE /\ exportDirs = [d \in {} |-> {}] /\ prevDirs = exportDirs
    /\ plan = NoPlan /\ pcPlan = "idle" /\ runs = 0
    /\ episodes = <<>> /\ startEp = 0 /\ startOff = 0 /\ minSec = 0 /\ maxSec = 0
    /\ segs = <<>> /\ usedStart = <<0, 0>> /\ sbSegs = <<>>
    /\ pcSeg = "built" /\ pcSb = "built"
    /\ tailExists = FALSE /\ refresh = FALSE
    /\ inodes = [i \in InodeIds |-> EmptyInode]
    /\ tmpPath = NoFile /\ cachePath = NoFile
    /\ wpc = [w \in Workers |-> "idle"] /\ wret = [w \in Workers |-> "-"]
    /\ wfd = [w \in Workers |-> NoFile] /\ wcall = [w \in Workers |-> NewCall]
    /\ observed = [w \in Workers |-> "none"]
    /\ lastDone = NoCall /\ calls = 0 /\ epoch = 0
    /\ jpc = "idle" /\ keepTemp = FALSE /\ useHw = FALSE /\ workdir = FALSE
    /\ nSegs = 0 /\ segIdx = 0 /\ encLog = <<>> /\ finalSrc = "-" /\ outWritten = FALSE
    /\ jobResult = "-" /\ raisedAt = "-" /\ tailRet = "-" /\ tailRenders = 0
    /\ cacheAtCall = NoFile /\ jobsRun = 0
    /\ cfile = <<>> /\ cused = [p \in CutRuns |-> <<>>] /\ cinit = [p \in CutRuns |-> 0]
    /\ cstart = [p \in CutRuns |-> <<>>] /\ cdisp = [p \in CutRuns |-> <<>>]
    /\ cplan = [p \in CutRuns |-> NoCutPlan] /\ cpc = [p \in CutRuns |-> "idle"]
    /\ dedup = FALSE /\ randomStart = FALSE /\ sceneDetect = FALSE /\ rounds = 0
    /\ sfiles = [s \in SeriesIds |-> <<>>] /\ sfileOrigin = [s \in SeriesIds |-> <<>>]
    /\ sused = <<>> /\ sorigin = <<>> /\ sinit = 0 /\ sstart = <<>> /\ smat = 0
    /\ sactual = <<>> /\ scompleted = 0 /\ sskipped = FALSE /\ sAccess = {}
    /\ scur = 0 /\ spc = "finished"
    /\ wMaxDates \in 1..MaxConcurrency /\ wActive = [d \in Dates |-> NoTask] /\ wTasks = <<>>
    /\ rbSettle = 1 /\ rbCached = None /\ rbProcessed = {} /\ rbIdle = 0 /\ rbDrama = NoDrama
    /\ rbHanded = [n \in DramaNames |-> 0] /\ rbStop = FALSE /\ rbCancel = FALSE /\ rbpc = "ended"
    /\ ddFile = [d \in DedupDates |-> {}] /\ ddInfo = {} /\ ddMarking = FALSE
    /\ ddEver = {} /\ ddRuns = 0 /\ ddpc = "idle"

\* the watcher's polls and the date tasks of its pool
NextWatcher ==
    \/ (\E target_dates \in SUBSET Dates, quick \in SUBSET Dates :
             WatcherPollOnce(target_dates, quick))
         /\ UNCHANGED <<planVars, segVars, outroVars, jobVars, cutVars, batchVars, storeVars, runVars, dedupVars>>
    \/ (\E t \in 1..MaxTasks : WatcherTaskBegin(t))
         /\ UNCHANGED <<planVars, segVars, outroVars, jobVars, cutVars, batchVars, storeVars, runVars, dedupVars>>
    \/ (\E t \in 1..MaxTasks : WatcherTaskEnd(t))
         /\ UNCHANGED <<planVars, segVars, outroVars, jobVars, cutVars, batchVars, storeVars, runVars, dedupVars>>

SpecWatcher == InitWatcher /\ [][NextWatcher]_vars

InitRunBatch ==
    /\ bpc = "finished" /\ bSeries = 0 /\ jobsLimit = 1
    /\ bTasks = [s \in SeriesIds |-> <<>>] /\ bOutcome = [s \in SeriesIds |-> "pending"]
    /\ bProduced = [s \in SeriesIds |-> {}] /\ bCompleted = [s \in SeriesIds |-> 0]
    /\ totalDone = 0
    /\ useDate = FALSE /\ exportDirs = [d \in {} |-> {}] /\ prevDirs = exportDirs
    /\ plan = NoPlan /\ pcPlan = "idle" /\ runs = 0
    /\ episodes = <<>> /\ startEp = 0 /\ startOff = 0 /\ minSec = 0 /\ maxSec = 0
    /\ segs = <<>> /\ usedStart = <<0, 0>> /\ sbSegs = <<>>
    /\ pcSeg = "built" /\ pcSb = "built"
    /\ tailExists = FALSE /\ refresh = FALSE
    /\ inodes = [i \in InodeIds |-> EmptyInode]
    /\ tmpPath = NoFile /\ cachePath = NoFile
    /\ wpc = [w \in Workers |-> "idle"] /\ wret = [w \in Workers |-> "-"]
    /\ wfd = [w \in Workers |-> NoFile] /\ wcall = [w \in Workers |-> NewCall]
    /\ observed = [w \in Workers |-> "none"]
    /\ lastDone = NoCall /\ calls = 0 /\ epoch = 0
    /\ jpc = "idle" /\ keepTemp = FALSE /\ useHw = FALSE /\ workdir = FALSE
    /\ nSegs = 0 /\ segIdx = 0 /\ encLog = <<>> /\ finalSrc = "-" /\ outWritten = FALSE
    /\ jobResult = "-" /\ raisedAt = "-" /\ tailRet = "-" /\ tailRenders = 0
    /\ cacheAtCall = NoFile /\ jobsRun = 0
    /\ cfile = <<>> /\ cused = [p \in CutRuns |-> <<>>] /\ cinit = [p \in CutRuns |-> 0]
    /\ cstart = [p \in CutRuns |-> <<>>] /\ cdisp = [p \in CutRuns |-> <<>>]
    /\ cplan = [p \in CutRuns |-> NoCutPlan] /\ cpc = [p \in CutRuns |-> "idle"]
    /\ dedup = FALSE /\ randomStart = FALSE /\ sceneDetect = FALSE /\ rounds = 0
    /\ sfiles = [s \in SeriesIds |-> <<>>] /\ sfileOrigin = [s \in SeriesIds |-> <<>>]
    /\ sused = <<>> /\ sorigin = <<>> /\ sinit = 0 /\ sstart = <<>> /\ smat = 0
    /\ sactual = <<>> /\ scompleted = 0 /\ sskipped = FALSE /\ sAccess = {}
    /\ scur = 0 /\ spc = "finished"
    /\ wMaxDates = 1 /\ wActive = [d \in Dates |-> 0] /\ wTasks = <<>>
    /\ rbSettle \in 1..MaxSettleRounds /\ rbCached \in {<<initial_info>> : initial_info \in SUBSET DramaNames}
    /\ rbProcessed = {} /\ rbIdle = 0 /\ rbDrama = NoDrama
    /\ rbHanded = [n \in DramaNames |-> 0] /\ rbStop = FALSE /\ rbCancel = FALSE /\ rbpc = "loop"
    /\ ddFile = [d \in DedupDates |-> {}] /\ ddInfo = {} /\ ddMarking = FALSE
    /\ ddEver = {} /\ ddRuns = 0 /\ ddpc = "idle"

\* the steps of the batch thread
RunBatchStep ==
    \/ (\E fetched \in SUBSET DramaNames, drama_name \in DramaNames :
             RunBatchLoopCheck(fetched, drama_name))
         /\ UNCHANGED <<planVars, segVars, outroVars, jobVars, cutVars, batchVars, storeVars, watchVars, dedupVars>>
    \/ RunBatchSleepEnd
         /\ UNCHANGED <<planVars, segVars, outroVars, jobVars, cutVars, batchVars, storeVars, watchVars, dedupVars>>
    \/ (\E latest_snapshot \in SUBSET DramaNames, result \in DramaResults :
             RunBatchDrama(latest_snapshot, result))
         /\ UNCHANGED <<planVars, segVars, outroVars, jobVars, cutVars, batchVars, storeVars, watchVars, dedupVars>>

\* the batch thread, and the main thread signalling it
NextRunBatch ==
    \/ RunBatchStep
    \/ WatcherStop /\ UNCHANGED <<planVars, segVars, outroVars, jobVars, cutVars, batchVars, storeVars, watchVars, dedupVars>>
    \/ CancelEventSet /\ UNCHANGED <<planVars, segVars, outroVars, jobVars, cutVars, batchVars, storeVars, watchVars, dedupVars>>

\* the pool thread running the batch keeps running, and every fetch and
\* every _process_single_drama returns
SpecRunBatch == InitRunBatch /\ [][NextRunBatch]_vars /\ WF_vars(RunBatchStep)

InitDateDedup ==
    /\ bpc = "finished" /\ bSeries = 0 /\ jobsLimit = 1
    /\ bTasks = [s \in SeriesIds |-> <<>>] /\ bOutcome = [s \in SeriesIds |-> "pending"]
    /\ bProduced = [s \in SeriesIds |-> {}] /\ bCompleted = [s \in SeriesIds |-> 0]
    /\ totalDone = 0
    /\ useDate = FALSE /\ exportDirs = [d \in {} |-> {}] /\ prevDirs = exportDirs
    /\ plan = NoPlan /\ pcPlan = "idle" /\ runs = 0
    /\ episodes = <<>> /\ startEp = 0 /\ startOff = 0 /\ minSec = 0 /\ maxSec = 0
    /\ segs = <<>> /\ usedStart = <<0, 0>> /\ sbSegs = <<>>
    /\ pcSeg = "built" /\ pcSb = "built"
    /\ tailExists = FALSE /\ refresh = FALSE
    /\ inodes = [i \in InodeIds |-> EmptyInode]
    /\ tmpPath = NoFile /\ cachePath = NoFile
    /\ wpc = [w \in Workers |-> "idle"] /\ wret = [w \in Workers |-> "-"]
    /\ wfd = [w \in Workers |-> NoFile] /\ wcall = [w \in Workers |-> NewCall]
    /\ observed = [w \in Workers |-> "none"]
    /\ lastDone = NoCall /\ calls = 0 /\ epoch = 0
    /\ jpc = "idle" /\ keepTemp = FALSE /\ useHw = FALSE /\ workdir = FALSE
    /\ nSegs = 0 /\ segIdx = 0 /\ encLog = <<>> /\ finalSrc = "-" /\ outWritten = FALSE
    /\ jobResult = "-" /\ raisedAt = "-" /\ tailRet = "-" /\ tailRenders = 0
    /\ cacheAtCall = NoFile /\ jobsRun = 0
    /\ cfile = <<>> /\ cused = [p \in CutRuns |-> <<>>] /\ cinit = [p \in CutRuns |-> 0]
    /\ cstart = [p \in CutRuns |-> <<>>] /\ cdisp = [p \in CutRuns |-> <<>>]
    /\ cplan = [p \in CutRuns |-> NoCutPlan] /\ cpc = [p \in CutRuns |-> "idle"]
    /\ dedup = FALSE /\ randomStart = FALSE /\ sceneDetect = FALSE /\ rounds = 0
    /\ sfiles = [s \in SeriesIds |-> <<>>] /\ sfileOrigin = [s \in SeriesIds |-> <<>>]
    /\ sused = <<>> /\ sorigin = <<>> /\ sinit = 0 /\ sstart = <<>> /\ smat = 0
    /\ sactual = <<>> /\ scompleted = 0 /\ sskipped = FALSE /\ sAccess = {}
    /\ scur = 0 /\ spc = "finished"
    /\ wMaxDates = 1 /\ wActive = [d \in Dates |-> 0] /\ wTasks = <<>>
    /\ rbSettle = 1 /\ rbCached = None /\ rbProcessed = {} /\ rbIdle = 0 /\ rbDrama = NoDrama
    /\ rbHanded = [n \in DramaNames |-> 0] /\ rbStop = FALSE /\ rbCancel = FALSE /\ rbpc = "ended"
    /\ ddFile = [d \in DedupDates |-> {}] /\ ddInfo = {} /\ ddMarking = FALSE
    /\ ddEver = {} /\ ddRuns = 0 /\ ddpc = "idle"

\* runs of feishu_run, one after the other
NextDateDedup ==
    \/ (\E pending \in SUBSET DramaNames, skip_processed \in BOOLEAN, force_reprocess \in BOOLEAN :
             FeishuRunFetch(pending, skip_processed, force_reprocess))
         /\ UNCHANGED <<planVars, segVars, outroVars, jobVars, cutVars, batchVars, storeVars, watchVars, runVars>>
    \/ (\E completed \in SUBSET DramaNames : FeishuRunProcess(completed))
         /\ UNCHANGED <<planVars, segVars, outroVars, jobVars, cutVars, batchVars, storeVars, watchVars, runVars>>

SpecDateDedup == InitDateDedup /\ [][NextDateDedup]_vars

----------------------------------------------------------------------------
\* Export directory planner: properties

\* the series' directories the discovery scan recognises: "{series}" and
\* "{series}-NNN" with exactly three digits
RecognisedDirs(fs, root) ==
    {d \in DOMAIN fs : d.root = root /\ (d.suffix = NoSuffix \/ Len(d.suffix) = 3)}

RunNumber(d) == IF d.suffix = NoSuffix THEN -1 ELSE IntOf(d.suffix)

\* the most recent directory: highest NNN, the plain directory if there is none
MostRecentDir(fs, root) ==
    IF RecognisedDirs(fs, root) = {} THEN NoDir
    ELSE CHOOSE d \in RecognisedDirs(fs, root) :
            \A e \in RecognisedDirs(fs, root) : RunNumber(e) <= RunNumber(d)

PlannedResume == pcPlan = "planned" /\ plan.mode = "resume"
PlannedFresh  == pcPlan = "planned" /\ plan.mode = "fresh"

\* C1 - Resume correctness: not Fresh and the latest existing directory holds
\* k materials: for k < target the planner returns that directory with
\* startIndex = k+1 and count = target-k, for k >= target it requests 0
\* materials; 7 of 10 present yields startIndex 8, count 3 (scenario D).
C1_ResumeCorrect ==
    /\ PlannedResume =>
         LET latest == MostRecentDir(prevDirs, ExportRoot(useDate))
             k      == Cardinality(prevDirs[latest])
         IN  latest # NoDir =>
               IF k < plan.count
               THEN /\ plan.out_dir = latest
                    /\ plan.start_index = k + 1
                    /\ plan.total_to_make = plan.count - k
                    /\ exportDirs = prevDirs
               ELSE plan.total_to_make = 0
    /\ LET X  == Dir("exports", <<0, 0, 2>>)
           fs == [d \in {X, Dir("exports", NoSuffix)} |-> IF d = X THEN 1..7 ELSE 1..10]
           r  == prepare_project_output_dir(fs, FALSE, 10, FALSE)
       IN  r.out_dir = X /\ r.start_index = 8 /\ r.total_to_make = 3

\* a Resume call that found 1 material of a target of 2 in the latest directory
C1_Witness ==
    /\ PlannedResume
    /\ MostRecentDir(prevDirs, ExportRoot(useDate)) # NoDir
    /\ Cardinality(prevDirs[MostRecentDir(prevDirs, ExportRoot(useDate))]) = 1
    /\ plan.count = 2
    /\ plan.total_to_make = 1

\* C2 - Fresh allocation: a Fresh call returns startIndex 1, count = target
\* and an output directory that did not exist before the call.
C2_FreshAllocatesNewDir ==
    PlannedFresh =>
        /\ plan.start_index = 1
        /\ plan.total_to_make = plan.count
        /\ plan.out_dir \notin DOMAIN prevDirs
        /\ plan.out_dir \in DOMAIN exportDirs

\* all run numbers in use before the call, whatever their width
RunNumbersBefore ==
    {RunNumber(d) : d \in {x \in DOMAIN prevDirs : x.root = ExportRoot(useDate)}}

\* C3 - Run-suffix allocation: on every collision the allocated suffix is
\* exactly 3 digits, equals max(existing)+1 (001 when only the plain directory
\* exists), and the latest-directory lookup returns the directory just created.
C3_RunSuffixAllocation ==
    (PlannedFresh /\ RunNumbersBefore # {}) =>
        /\ Len(plan.run_suffix) = 3
        /\ IntOf(plan.run_suffix) =
             (IF Max(RunNumbersBefore) >= 0 THEN Max(RunNumbersBefore) + 1 ELSE 1)
        /\ \A n \in RunNumbersBefore : n < IntOf(plan.run_suffix)
        /\ get_latest_export_dir(exportDirs, ExportRoot(useDate)).best_dir = plan.out_dir

----------------------------------------------------------------------------
\* Segment builder: properties
\* The contributions are restated here from the episode list alone.

\* what episode i contributes to a walk that starts at (s0, off)
Take(s0, off, i) ==
    IF episodes[i + 1] = ProbeError THEN 0
    ELSE Max2(0, episodes[i + 1] - (IF i = s0 THEN off ELSE 0))

RECURSIVE PrefixTotal(_, _, _)
PrefixTotal(s0, off, n) ==
    IF n < s0 THEN 0 ELSE PrefixTotal(s0, off, n - 1) + Take(s0, off, n)

LastEp == Len(episodes) - 1

\* episodes the scan reaches and includes: everything before stayed below maxSec
Scanned(s0, off) ==
    {n \in s0..LastEp :
        /\ Take(s0, off, n) > 0
        /\ \A m \in s0..(n - 1) : PrefixTotal(s0, off, m) < maxSec}

InRange(s0, off) ==
    {n \in Scanned(s0, off) :
        minSec <= PrefixTotal(s0, off, n) /\ PrefixTotal(s0, off, n) <= maxSec}

\* the plan made of the included episodes s0..n
RECURSIVE PlanUpTo(_, _, _)
PlanUpTo(s0, off, n) ==
    IF n < s0 THEN <<>>
    ELSE IF Take(s0, off, n) > 0
         THEN Append(PlanUpTo(s0, off, n - 1),
                     [ep |-> n, start |-> (IF n = s0 THEN off ELSE 0), end |-> episodes[n + 1]])
         ELSE PlanUpTo(s0, off, n - 1)

RECURSIVE SpanSum(_)
SpanSum(ss) == IF ss = <<>> THEN 0 ELSE (ss[1].end - ss[1].start) + SpanSum(Tail(ss))

DistToMid(s0, off, n) == Abs(2 * PrefixTotal(s0, off, n) - (minSec + maxSec))

Built == pcSeg = "built"

\* C4 - Minimum-duration contract: with max > min the builder returns either
\* the empty plan or a plan whose total span duration is >= minDuration.
C4_MinimumDuration ==
    (Built /\ maxSec > minSec) => (segs = <<>> \/ SpanSum(segs) >= minSec)

\* a non-empty plan that overshoots maxSec in order to reach minSec
C4_Witness ==
    Built /\ segs # <<>> /\ SpanSum(segs) > maxSec /\ Len(segs) >= 2

\* C5 - In-range selection: when some scanned prefix has a cumulative duration
\* within [min, max], the plan is the in-range prefix closest to the midpoint;
\* [300, 400, 500] from (0, 0) with 600..900 gives episodes 0 and 1 in full.
C5_InRangeSelection ==
    /\ Built =>
         LET s0 == usedStart[1]
             off == usedStart[2]
         IN  InRange(s0, off) # {} =>
               \E n \in InRange(s0, off) :
                   /\ segs = PlanUpTo(s0, off, n)
                   /\ \A m \in InRange(s0, off) : DistToMid(s0, off, n) <= DistToMid(s0, off, m)
    /\ build_segments_at_episode_boundaries(<<300, 400, 500>>, 0, 0, 600, 900).segs
         = <<[ep |-> 0, start |-> 0, end |-> 300], [ep |-> 1, start |-> 0, end |-> 400]>>

\* scenario A reached as a state, and a choice between two in-range prefixes
C5_Witness ==
    /\ Built
    /\ episodes = <<300, 400, 500>> /\ startEp = 0 /\ startOff = 0
    /\ minSec = 600 /\ maxSec = 900
    /\ SpanSum(segs) = 700

\* C6 (as stated) - Best-effort selection: when no scanned prefix is in range,
\* the returned plan is the scanned prefix closest to the midpoint.
C6_BestEffortClosest ==
    Built =>
        LET s0 == usedStart[1]
            off == usedStart[2]
        IN  (InRange(s0, off) = {} /\ segs # <<>>) =>
              \E n \in Scanned(s0, off) :
                  /\ segs = PlanUpTo(s0, off, n)
                  /\ \A m \in Scanned(s0, off) : DistToMid(s0, off, n) <= DistToMid(s0, off, m)

\* C6 (amended) - when no scanned prefix is in range, VideoEncoder's builder
\* returns the shortest scanned prefix that reaches minDuration (it exceeds
\* maxDuration), or the empty plan if none does; the SegmentBuilder class
\* returns the scanned prefix closest to the midpoint.
C6_BestEffortShortestValid ==
    /\ Built =>
         LET s0 == usedStart[1]
             off == usedStart[2]
             reaching == {n \in Scanned(s0, off) : PrefixTotal(s0, off, n) >= minSec}
         IN  InRange(s0, off) = {} =>
               IF reaching = {} THEN segs = <<>>
               ELSE /\ segs = PlanUpTo(s0, off, LeastOf(reaching))
                    /\ \A m \in reaching : PrefixTotal(s0, off, m) >= SpanSum(segs)
                    /\ SpanSum(segs) > maxSec
    /\ pcSb = "built" =>
         ((InRange(startEp, startOff) = {} /\ Scanned(startEp, startOff) # {}) =>
              \E n \in Scanned(startEp, startOff) :
                  /\ sbSegs = PlanUpTo(startEp, startOff, n)
                  /\ \A m \in Scanned(startEp, startOff) :
                        DistToMid(startEp, startOff, n) <= DistToMid(startEp, startOff, m))

\* no prefix in range, and a scanned prefix below minSec lies closer to the
\* midpoint than the plan that was returned
C6_Witness ==
    /\ Built
    /\ segs # <<>>
    /\ InRange(usedStart[1], usedStart[2]) = {}
    /\ \E m \in Scanned(usedStart[1], usedStart[2]) :
          DistToMid(usedStart[1], usedStart[2], m) < Abs(2 * SpanSum(segs) - (minSec + maxSec))

\* the first episode of the walk that contributes anything
FirstIncluded(s0, off) ==
    IF Scanned(s0, off) = {} THEN -1 ELSE LeastOf(Scanned(s0, off))

OverLongFirst ==
    /\ Built
    /\ FirstIncluded(usedStart[1], usedStart[2]) >= 0
    /\ Take(usedStart[1], usedStart[2], FirstIncluded(usedStart[1], usedStart[2])) > maxSec

\* C7 (as stated) - Over-long single episode: the result is a one-span plan
\* truncated so that its duration does not exceed maxDuration, with end > start.
C7_OverLongTruncated ==
    OverLongFirst =>
        /\ Len(segs) = 1
        /\ segs[1].end > segs[1].start
        /\ segs[1].end - segs[1].start <= maxSec
        /\ segs[1].end <= segs[1].start + maxSec

\* C7 (amended) - the result is a one-span plan that runs from the start offset
\* to the end of that episode, untruncated: its duration exceeds maxDuration.
C7_OverLongWholeEpisode ==
    OverLongFirst =>
        LET n == FirstIncluded(usedStart[1], usedStart[2])
        IN  /\ Len(segs) = 1
            /\ segs[1].ep = n
            /\ segs[1].start = (IF n = usedStart[1] THEN usedStart[2] ELSE 0)
            /\ segs[1].end = episodes[n + 1]
            /\ segs[1].end > segs[1].start
            /\ segs[1].end - segs[1].start > maxSec

C7_Witness ==
    OverLongFirst /\ startOff > 0 /\ usedStart = <<startEp, startOff>> /\ Len(segs) = 1

\* the most that any start point of the series can reach
RECURSIVE ReachableFrom(_)
ReachableFrom(e) ==
    IF e > LastEp THEN 0
    ELSE (IF episodes[e + 1] = ProbeError THEN 0 ELSE episodes[e + 1]) + ReachableFrom(e + 1)

SomeStartReaches == \E e \in 0..LastEp : ReachableFrom(e) >= minSec

RequestedAvailable == PrefixTotal(startEp, startOff, LastEp)

\* C8 - Unsatisfiable exactly when unreachable: if the requested start cannot
\* reach minDuration the plan is built from an alternate start that can; the
\* plan is empty iff no start point of the series reaches minDuration
\* (a single 200 s episode with min 480 is Unsatisfiable).
C8_UnsatisfiableIffUnreachable ==
    /\ Built =>
         /\ (segs = <<>>) <=> ~SomeStartReaches
         /\ RequestedAvailable >= minSec => usedStart = <<startEp, startOff>>
         /\ (RequestedAvailable < minSec /\ SomeStartReaches) =>
               /\ usedStart[1] \in 0..LastEp
               /\ PrefixTotal(usedStart[1], usedStart[2], LastEp) >= minSec
               /\ segs # <<>>
               /\ segs[1].ep >= usedStart[1]
               /\ segs[1].start = (IF segs[1].ep = usedStart[1] THEN usedStart[2] ELSE 0)
    /\ build_segments_at_episode_boundaries(<<200>>, 0, 0, 480, 900).segs = <<>>

\* the requested start could not reach minSec and the plan was built from another
C8_Witness ==
    /\ Built
    /\ RequestedAvailable < minSec
    /\ usedStart # <<startEp, startOff>>
    /\ usedStart[2] > 0
    /\ segs # <<>>

----------------------------------------------------------------------------
\* Outro cache: properties

\* worker w is inside (or has just returned from) a call that began after an
\* earlier call with the same parameters had returned, both without refresh
SecondCall(w) ==
    /\ wpc[w] # "idle"
    /\ tailExists
    /\ wcall[w].prev # NoCall
    /\ ~wcall[w].prev.refresh
    /\ ~wcall[w].refresh

\* C9 (as stated) - Outro-cache idempotence: two calls with identical
\* parameters and refresh = false perform the render at most once and both
\* return the same cache path.
C9_RenderAtMostOnce ==
    \A w \in Workers :
        (SecondCall(w) /\ wpc[w] = "done") =>
            /\ wcall[w].prev.renders + wcall[w].renders <= 1
            /\ wret[w] = "cache_path"
            /\ wcall[w].prev.ret = "cache_path"

\* C9 (amended) - if the first of the two calls returned the cache path (its
\* render did not fail), the second call does not render and returns the same
\* cache path, also after a process restart.
C9_SecondCallHits ==
    \A w \in Workers :
        (SecondCall(w) /\ wcall[w].prev.ret = "cache_path") =>
            /\ wpc[w] = "done"
            /\ wret[w] = "cache_path"
            /\ wcall[w].renders = 0
            /\ wcall[w].prev.renders + wcall[w].renders <= 1
            /\ cachePath # NoFile

\* scenario C: the entry was rendered by a call of the previous process and
\* the call after the restart returned it without rendering
C9_Witness ==
    \E w \in Workers :
        /\ SecondCall(w)
        /\ wpc[w] = "done"
        /\ wcall[w].prev.ret = "cache_path"
        /\ wcall[w].prev.renders = 1
        /\ wcall[w].prev.epoch < epoch
        /\ wret[w] = "cache_path"
        /\ wcall[w].renders = 0

\* C10 - Outro-cache atomicity: whenever the cache path is present it names a
\* completely rendered file that nobody is still writing, and every reader
\* that used the returned path read a complete entry.
C10_CacheEntryComplete ==
    /\ cachePath # NoFile =>
         (inodes[cachePath].content = "complete" /\ inodes[cachePath].writers = {})
    /\ \A w \in Workers : observed[w] \in {"none", "complete"}

\* C11 - Single build wins: when several callers request the same not-yet-
\* cached key concurrently (refresh = false), a caller that arrives while
\* another caller builds the entry does not start a second render: no two
\* renders of the key are ever in progress or pending installation together.
C11_SingleBuildWins ==
    ~refresh =>
        \A w1, w2 \in Workers :
            (w1 # w2 /\ wpc[w1] \in {"rendering", "replace"}) => wpc[w2] # "rendering"

----------------------------------------------------------------------------
\* EncodeJob: properties

\* the job's get_or_build_tail_norm call started a render and returned None
TailRenderFailed == tailRet = "None" /\ tailRenders >= 1

\* C12 - Outro render failure: when the render of the outro entry fails, the
\* temp artifact is gone, the call returned None, the cache path holds what it
\* held before the call, and the job goes on to its final output without an
\* outro: it is not failed by the outro step.
C12_RenderFailureSkipsOutro ==
    (jpc \in {"remux", "finally", "ended", "blocked"} /\ TailRenderFailed) =>
        /\ tmpPath = NoFile
        /\ cachePath = cacheAtCall
        /\ finalSrc = "concat_main"
        /\ jpc = "remux" => jobResult = "-"
        /\ jpc \in {"finally", "ended"} =>
              \/ jobResult = "path" /\ outWritten
              \/ jobResult = "raised" /\ raisedAt = "remux"

\* a forced rebuild of an installed entry failed and the job still delivered
\* its material, without the outro
C12_Witness ==
    /\ jpc = "ended"
    /\ TailRenderFailed
    /\ cacheAtCall # NoFile
    /\ cachePath = cacheAtCall
    /\ jobResult = "path"
    /\ finalSrc = "concat_main"

\* the ffmpeg runs of the encode loop that belong to segment i
RunsOfSegment(i) == {k \in 1..Len(encLog) : encLog[k].seg = i}

\* C13 - Per-segment hardware fallback: with use_hw set, every segment is
\* first tried with the hardware encoder; a hardware failure is followed by
\* exactly one software run of the same segment; software runs happen only as
\* such retries; the encode loop aborts the job only when a software retry
\* failed.
C13_PerSegmentFallback ==
    useHw =>
        /\ \A k \in 1..Len(encLog) :
              /\ (k = 1 \/ encLog[k - 1].seg # encLog[k].seg) => encLog[k].enc = "hw"
              /\ (encLog[k].enc = "hw" /\ ~encLog[k].ok) =>
                    /\ k + 1 <= Len(encLog)
                    /\ encLog[k + 1].enc = "sw"
                    /\ encLog[k + 1].seg = encLog[k].seg
                    /\ Cardinality(RunsOfSegment(encLog[k].seg)) = 2
              /\ encLog[k].enc = "sw" =>
                    /\ k > 1
                    /\ encLog[k - 1].enc = "hw"
                    /\ ~encLog[k - 1].ok
                    /\ encLog[k - 1].seg = encLog[k].seg
              /\ (encLog[k].enc = "hw" /\ encLog[k].ok) =>
                    Cardinality(RunsOfSegment(encLog[k].seg)) = 1
        /\ (jobResult = "raised" /\ raisedAt = "encode") <=>
              /\ encLog # <<>>
              /\ encLog[Len(encLog)].enc = "sw"
              /\ ~encLog[Len(encLog)].ok

\* segment 1 failed on the hardware encoder, its software retry succeeded, and
\* segment 2 was tried with the hardware encoder again
C13_Witness ==
    /\ useHw
    /\ Len(encLog) >= 3
    /\ encLog[1] = [seg |-> 1, enc |-> "hw", ok |-> FALSE]
    /\ encLog[2] = [seg |-> 1, enc |-> "sw", ok |-> TRUE]
    /\ encLog[3].seg = 2
    /\ encLog[3].enc = "hw"
    /\ jobResult # "raised"

\* C14 - Bounded external calls: every external process a job waits for is
\* waited for under a timeout, so no job is ever stuck on a process that
\* never exits.
C14_BoundedExternalCalls == jpc # "blocked"

\* C15 - Scratch cleanup: once the job has ended, whichever way, its scratch
\* directory no longer exists, unless keep_temp is set.
C15_ScratchRemoved ==
    (jpc = "ended" /\ ~keepTemp) => ~workdir

\* a job that ended by a failed segment encode, without keep_temp
C15_Witness ==
    /\ jpc = "ended"
    /\ ~keepTemp
    /\ jobResult = "raised"
    /\ raisedAt = "encode"
    /\ ~workdir

----------------------------------------------------------------------------
\* Start points and cut-point history: properties

Dispatched(p) == cpc[p] = "dispatched"

\* C17 (as stated) - Exact dispatch count: for a planner result with count > 0
\* exactly count jobs are dispatched, one for each material index
\* startIndex .. startIndex+count-1; the start-point generator never hands
\* back fewer than count start points.
C17_ExactDispatchCount ==
    \A p \in CutRuns :
        Dispatched(p) =>
            /\ Len(cstart[p]) >= cplan[p].count
            /\ Len(cdisp[p]) = cplan[p].count
            /\ \A i \in 1..cplan[p].count :
                  i <= Len(cdisp[p]) /\ cdisp[p][i] = cplan[p].start_index + i - 1

\* C17 (amended) - one job is dispatched per start point handed back, for the
\* material indices startIndex, startIndex+1, ... in order; the generator
\* hands back at most count start points, and exactly count when
\* deduplication is disabled.
C17_DispatchPerStartPoint ==
    \A p \in CutRuns :
        Dispatched(p) =>
            /\ Len(cdisp[p]) = Len(cstart[p])
            /\ Len(cstart[p]) <= cplan[p].count
            /\ \A i \in 1..Len(cdisp[p]) : cdisp[p][i] = cplan[p].start_index + i - 1
            /\ ~dedup => Len(cstart[p]) = cplan[p].count

\* with deduplication on, two materials were requested from index 2 and a
\* single start point came back: only material 2 was dispatched
C17_Witness ==
    \E p \in CutRuns :
        /\ Dispatched(p)
        /\ dedup
        /\ cplan[p] = [start_index |-> 2, count |-> 2]
        /\ Len(cstart[p]) = 1
        /\ cdisp[p] = <<2>>

\* candidates the exclusion test is asked about
ProbeEpisodes == {0, 1}
ProbeTimes == {0, 20, 29, 30, 31, 59, 60}

\* C19 - Exclusion correctness: for every stored list of cut points and every
\* candidate (e, t'), the test is true iff some stored point (e, t) of the same
\* episode has |t - t'| < exclusion radius (strict; other episodes never
\* exclude).
C19_ExclusionCorrect ==
    \A p \in CutRuns, e \in ProbeEpisodes, t \in ProbeTimes :
        _is_cut_point_excluded(cused[p], e, t) <=>
            \E i \in 1..Len(cused[p]) :
                /\ cused[p][i][1] = e
                /\ Abs(cused[p][i][2] - t) < exclusion_radius

\* only (0, 0) is stored: 29 s away is excluded, exactly 30 s away is not,
\* and the same timestamp in episode 1 is not
C19_Witness ==
    \E p \in CutRuns :
        /\ cused[p] = << <<0, 0>> >>
        /\ _is_cut_point_excluded(cused[p], 0, 29)
        /\ ~_is_cut_point_excluded(cused[p], 0, 30)
        /\ ~_is_cut_point_excluded(cused[p], 1, 0)

\* the points a stored list holds
StoredPoints(f) == {f[i] : i \in 1..Len(f)}

\* C20 - Monotonic cut-point history: the persisted cut-point set only grows:
\* every point persisted before a step is still persisted after it, under any
\* interleaving of runs, also when a run could not read the file.
C20_HistoryOnlyGrows ==
    [][StoredPoints(cfile) \subseteq StoredPoints(cfile')]_vars

----------------------------------------------------------------------------
\* Batch run: properties

\* tasks that have been started
Attempted(ts) == {i \in 1..Len(ts) : ts[i] \notin {"queued", "cancelled"}}

\* C16 - Failure isolation: a failed material never prevents the remaining
\* materials of its series from being attempted (sequential and pooled), and
\* a failure while handling one series never prevents the later series from
\* being processed: once a series' dispatch is over every one of its tasks
\* was attempted, and once the batch is over every series was handled.
C16_FailureIsolation ==
    /\ \A s \in SeriesIds :
          bOutcome[s] \in {"processed", "raised_after"} =>
              Attempted(bTasks[s]) = 1..Len(bTasks[s])
    /\ bpc = "finished" => \A s \in SeriesIds : bOutcome[s] # "pending"
    /\ \A s \in SeriesIds :
          (bOutcome[s] # "pending" /\ s < NumSeries) =>
              (bSeries > s /\ (bpc = "series" => bOutcome[bSeries] = "pending"))

\* series 1 failed as a whole; series 2 still ran, its first material failed
\* and its second material was attempted and completed
C16_Witness ==
    /\ bpc = "finished"
    /\ bOutcome[1] = "raised"
    /\ bOutcome[2] = "processed"
    /\ Len(bTasks[2]) = 2
    /\ bTasks[2][1] = "failed"
    /\ bTasks[2][2] = "ok"

\* the tasks in flight, over all series
InFlight ==
    {t \in SeriesIds \X (1..MaxCount) :
        t[2] <= Len(bTasks[t[1]]) /\ bTasks[t[1]][t[2]] \in {"running", "blocked"}}

\* C18 - Scheduling bound: at every moment all in-flight jobs belong to one
\* series and number at most config.jobs; no job of a later series starts
\* before every job of the earlier series has finished.
C18_SchedulingBound ==
    /\ \A t, u \in InFlight : t[1] = u[1]
    /\ Cardinality(InFlight) <= jobsLimit
    /\ \A s \in SeriesIds, e \in SeriesIds :
          (e < s /\ Attempted(bTasks[s]) # {}) =>
              \A i \in 1..Len(bTasks[e]) : bTasks[e][i] \in {"ok", "failed"}

\* the pool of series 2 runs two jobs at once after both jobs of series 1
\* have finished
C18_Witness ==
    /\ jobsLimit = 2
    /\ bSeries = 2
    /\ Len(bTasks[1]) = 2
    /\ \A i \in 1..2 : bTasks[1][i] \in {"ok", "failed"}
    /\ Len(bTasks[2]) = 2
    /\ bTasks[2][1] = "running"
    /\ bTasks[2][2] = "running"

----------------------------------------------------------------------------
\* Segment builder: structure of the returned plan

\* episode numbers of the spans of a plan
PlanEpisodes(ss) == {ss[j].ep : j \in 1..Len(ss)}

\* each span is the remainder of its episode: from the start offset in the
\* start episode, from 0 in any other, up to the episode's duration
WholeRemainders(ss, s0, off) ==
    \A j \in 1..Len(ss) :
        /\ ss[j].ep \in s0..LastEp
        /\ ss[j].start = (IF ss[j].ep = s0 THEN off ELSE 0)
        /\ ss[j].end = episodes[ss[j].ep + 1]
        /\ 0 <= ss[j].start /\ ss[j].start < ss[j].end

\* C23 - Plan structure (as stated): a returned plan covers consecutive
\* episodes beginning at the (possibly re-anchored) start episode, the first
\* span being [startOffset, duration) of the start episode and every later
\* span [0, duration) of the next episode, each with 0 <= start < end.
C23_PlanStructure ==
    (Built /\ segs # <<>>) =>
        /\ segs[1].ep = usedStart[1]
        /\ \A j \in 2..Len(segs) : segs[j].ep = segs[j - 1].ep + 1
        /\ WholeRemainders(segs, usedStart[1], usedStart[2])

\* C23 (amended) - a returned plan lists episodes at or after the start
\* episode in strictly increasing order; each span is [startOffset, duration)
\* if its episode is the start episode and [0, duration) otherwise, with
\* 0 <= start < end; an episode between the start episode and the last span
\* is left out exactly when it contributes nothing (its duration cannot be
\* probed, or nothing of it remains after the offset).
C23_PlanStructureSkipping ==
    (Built /\ segs # <<>>) =>
        LET s0 == usedStart[1]
            off == usedStart[2]
        IN  /\ \A j \in 2..Len(segs) : segs[j].ep > segs[j - 1].ep
            /\ WholeRemainders(segs, s0, off)
            /\ \A n \in s0..segs[Len(segs)].ep :
                   (n \in PlanEpisodes(segs)) <=> (Take(s0, off, n) > 0)

\* a plan that starts after its start episode (the offset equals the start
\* episode's duration) and a plan that jumps over an unreadable episode
C23_Witness ==
    /\ Built /\ segs # <<>>
    /\ \/ /\ startOff = episodes[startEp + 1]
          /\ usedStart = <<startEp, startOff>>
          /\ segs[1].ep > startEp
       \/ /\ Len(segs) >= 2
          /\ segs[2].ep = segs[1].ep + 2
          /\ episodes[segs[1].ep + 2] = ProbeError

----------------------------------------------------------------------------
\* Export-directory planner: topping up a directory

\* C24 - No regeneration on top-up: the material indices a Resume run uses,
\* startIndex .. startIndex+count-1, are none of the indices already present
\* in the output directory (whatever the set of present materials, gaps
\* included), so no existing output path is written again.
C24_NoRegeneration ==
    (PlannedResume /\ plan.total_to_make > 0) =>
        PlannedIndices \cap exportDirs[plan.out_dir] = {}

\* C25 - Resume convergence: a Resume run in which every EncodeJob succeeds
\* leaves strictly more materials in the directory than it found, so that
\* repeated runs reach the target (the Skip state) after finitely many runs.
C25_ResumeProgress ==
    [][(/\ PlannedResume /\ plan.total_to_make > 0
        /\ pcPlan' = "idle"
        /\ PlannedIndices \subseteq exportDirs'[plan.out_dir])
       => Cardinality(exportDirs'[plan.out_dir]) > Cardinality(exportDirs[plan.out_dir])]_vars

----------------------------------------------------------------------------
\* Batch scheduler: completion counters

\* series whose iteration of the series loop is over
SeriesDone == {s \in SeriesIds : bOutcome[s] # "pending"}

RECURSIVE ProducedUpTo(_)
ProducedUpTo(n) ==
    IF n = 0 THEN 0
    ELSE ProducedUpTo(n - 1) + (IF n \in SeriesDone THEN Cardinality(bProduced[n]) ELSE 0)

\* C26 - Truthful completion counters: the per-series completed count equals
\* the number of materials of the run whose output file was produced, and the
\* global done count is the sum over the series handled so far; a material
\* skipped as Unsatisfiable, or failed without raising, is not counted.
C26_TruthfulCounters ==
    /\ \A s \in SeriesIds : bCompleted[s] = Cardinality(bProduced[s])
    /\ totalDone = ProducedUpTo(NumSeries)

----------------------------------------------------------------------------
\* Cut points over the series of one batch

\* two points of the same episode closer than the exclusion radius
Conflicting(p, q) == p[1] = q[1] /\ Abs(p[2] - q[2]) < exclusion_radius

\* C21 - Per-series cut-point isolation: while series S is processed the
\* points the exclusion decision reads are points used in S only, and the
\* set persisted for S holds only points used in S, never points of a
\* series processed earlier in the same batch.
C21_PerSeriesIsolation ==
    /\ spc \in {"loaded", "materials"} =>
          \A i \in 1..Len(sorigin) : sorigin[i] = scur
    /\ \A s \in SeriesIds : \A i \in 1..Len(sfileOrigin[s]) : sfileOrigin[s][i] = s

\* C22 - Deduplication disabled: with the flag off no candidate start or cut
\* point is passed over because of its distance to a previously used point,
\* and the cut-point store is neither read nor written.
C22_DedupDisabledUnconstrained ==
    ~dedup => (~sskipped /\ sAccess = {})

\* C27 - No duplicate cut points within a run: with deduplication enabled the
\* start points the produced materials of a series run were cut from are
\* pairwise non-conflicting, and none conflicts with a point persisted for
\* the series.
C27_NoDuplicateCutPoints ==
    (dedup /\ spc = "materials") =>
        /\ \A i, j \in 1..Len(sactual) : i < j => ~Conflicting(sactual[i], sactual[j])
        /\ \A i \in 1..Len(sactual) : \A k \in 1..Len(sfiles[scur]) :
               ~Conflicting(sactual[i], sfiles[scur][k])

----------------------------------------------------------------------------
\* Watcher: date tasks

\* C28 - Watcher date exclusivity: at no time are two tasks for the same
\* date label executing; a task for a date starts only when no earlier task
\* for that date is still running, also after a preemption and a later poll
\* that selects the date again.
C28_DateExclusive ==
    \A t, u \in ExecutingTasks : wTasks[t].date = wTasks[u].date => t = u

\* C29 - Watcher batch termination: a date batch hands each drama name to
\* _process_single_drama at most once, and whatever the polls return the
\* loop ends: at the first loop check after stop or cancel is signalled, or
\* else with idle_rounds = settle_rounds, i.e. after settle_rounds
\* consecutive polls without an unprocessed drama.
C29_BatchTerminates ==
    /\ [](\A n \in DramaNames : rbHanded[n] <= 1)
    /\ [][((rbStop \/ rbCancel) /\ rbpc \in {"loop", "picked"} /\ rbpc' # rbpc)
              => (rbpc' = "ended" /\ rbHanded' = rbHanded)]_vars
    /\ []((rbpc = "ended" /\ ~rbStop /\ ~rbCancel) => rbIdle = rbSettle)
    /\ <>(rbpc = "ended")

\* the batch has settled by itself after working through every name, one of
\* them handed to processing, with two idle rounds at the end
C29_Witness ==
    /\ rbpc = "ended" /\ ~rbStop /\ ~rbCancel
    /\ rbSettle = 2 /\ rbIdle = 2
    /\ rbProcessed = DramaNames
    /\ \E n, m \in DramaNames : rbHanded[n] = 1 /\ rbHanded[m] = 0

----------------------------------------------------------------------------
\* Date-dedup records

\* C30 - Date-dedup marking: a drama is recorded as processed for its date
\* only if at least one of that drama's own materials was completed in a run;
\* a drama for which nothing was produced is not recorded (and so is offered
\* again by filter_new_dramas).
C30_MarkedOnlyIfCompleted ==
    \A d \in DedupDates : ddFile[d] \subseteq ddEver

====
